---- MODULE Spec2Model ----
(***************************************************************************)
(* cargo-husky build script (src/build.rs): installation of git hooks.     *)
(*                                                                         *)
(* Text is a sequence of atoms (strings, the characters they hold);        *)
(* "\n" and "\r" are atoms of their own, so that line splitting and        *)
(* trimming are computed and not assumed; substring search is over the     *)
(* characters, and a read or write at a byte offset divides the atom it    *)
(* falls in.  A path is the sequence of its components below the           *)
(* filesystem root.  The filesystem is a function from the paths that      *)
(* exist to their nodes.                                                   *)
(*                                                                         *)
(* The environment: the process owns the files and is not the superuser;  *)
(* there are no symbolic links; a file opens for reading or writing when   *)
(* its owner bits allow it; directories can be searched and written; the   *)
(* device does not fail or fill up, so a write to a file that was opened   *)
(* succeeds; a line holding INVALID_UTF8 cannot be read as text; a         *)
(* directory lists its entries in the same order in every build; in the   *)
(* builds that run one after the other the user hook sources do not lie    *)
(* in the hooks directory.  OUT_DIR may be absent, empty, relative or      *)
(* rooted.                                                                 *)
(***************************************************************************)
EXTENDS Integers, Sequences, FiniteSets, TLC

VARIABLES
    fs,          \* the filesystem: path -> node, for the paths that exist
    out_dir,     \* the environment variable OUT_DIR
    features,    \* the cargo features the build script is compiled with
    dir_order,   \* the order in which the filesystem lists directory entries
    pc,          \* the position of the running build script
    pass,        \* the number of the running build (1, 2, ...)
    hook_paths,  \* install_user_hooks: the user hooks still to install
    err,         \* what install() returns ("Ok" until a step fails)
    result,      \* what main() returned ("none" while it runs)
    warned,      \* whether main() printed its warning
    gitdir,      \* the result of the last call of resolve_gitdir in this build
    snaps,       \* the filesystem before the first build and after each build
    visited,     \* the hooks this build called install_hook/install_user_hook for
    written,     \* the files this build created or truncated and wrote
    checks,      \* the calls of hook_already_exists in this build, with the answers
    procs        \* the build scripts that run at the same time (SpecRace)

vars == <<fs, out_dir, features, dir_order, pc, pass, hook_paths, err,
          result, warned, gitdir, snaps, visited, written, checks, procs>>

\* ------------------------------------------------------------------ bounds
MaxPasses == 2

\* --------------------------------------------------------------- constants
NL == "\n"
CR == "\r"
INVALID_UTF8 == "<invalid utf-8>"
MARK == "This hook was set by cargo-husky"
CARGO_PKG_VERSION == <<"0.5.", "1">>
CARGO_PKG_HOMEPAGE == "https://github.com/rhysd/cargo-husky#readme"
CARGO_MANIFEST_DIR == "/c"
MAIN_SEPARATOR == "/"
CWD == <<"c">>

MODE_0755 == 493
MODE_0555 == 365
OWNER_READ == 4 * 64
OWNER_WRITE == 2 * 64
UMASK == 2 * 8 + 2

\* ------------------------------------------------------------ text helpers
RECURSIVE BitAnd(_, _)
BitAnd(a, b) ==
    IF a = 0 \/ b = 0 THEN 0
    ELSE 2 * BitAnd(a \div 2, b \div 2) + (IF a % 2 = 1 /\ b % 2 = 1 THEN 1 ELSE 0)

\* The characters of a text, as one string.
RECURSIVE Flat(_)
Flat(s) == IF s = <<>> THEN "" ELSE s[1] \o Flat(Tail(s))

\* str::contains: the characters of pat occur in s, wherever the atoms of s
\* begin and end.
Contains(s, pat) ==
    LET t == Flat(s)
        q == Flat(pat)
    IN  \E i \in 0..(Len(t) - Len(q)) : SubSeq(t, i + 1, i + Len(q)) = q

\* str::starts_with
StartsWith(s, pat) ==
    LET t == Flat(s)
        q == Flat(pat)
    IN  Len(t) >= Len(q) /\ SubSeq(t, 1, Len(q)) = q

\* str::trim_right_matches(&['\n', '\r'])
RECURSIVE TrimRightNewlines(_)
TrimRightNewlines(s) ==
    IF s # <<>> /\ s[Len(s)] \in {NL, CR}
    THEN TrimRightNewlines(SubSeq(s, 1, Len(s) - 1))
    ELSE s

\* Splits text at every occurrence of the atom sep (empty pieces are kept).
RECURSIVE SplitOn(_, _, _)
SplitOn(s, sep, cur) ==
    IF s = <<>> THEN <<cur>>
    ELSE IF s[1] = sep THEN <<cur>> \o SplitOn(Tail(s), sep, <<>>)
         ELSE SplitOn(Tail(s), sep, Append(cur, s[1]))

\* One item of BufRead::lines(): the line without its "\n" or "\r\n", or an
\* error when the bytes of the line are not UTF-8.
LineItem(raw, terminated) ==
    IF \E i \in 1..Len(raw) : raw[i] = INVALID_UTF8
    THEN [err |-> TRUE, s |-> <<>>]
    ELSE [err |-> FALSE,
          s |-> IF terminated /\ raw # <<>> /\ raw[Len(raw)] = CR
                THEN SubSeq(raw, 1, Len(raw) - 1) ELSE raw]

\* BufRead::lines() over the whole content of a file.
BufLines(data) ==
    LET pieces == SplitOn(data, NL, <<>>)
        n == Len(pieces)
        \* the piece after the last "\n" is a line only when it is not empty
        m == IF pieces[n] = <<>> THEN n - 1 ELSE n
    IN  [i \in 1..m |-> LineItem(pieces[i], i < n)]

\* writeln!(f, "{}", line) for every line
RECURSIVE WriteLines(_)
WriteLines(ls) ==
    IF ls = <<>> THEN <<>> ELSE ls[1] \o <<NL>> \o WriteLines(Tail(ls))

\* ------------------------------------------------------------ path helpers
\* PathBuf::join / push
Join(dir, name) == Append(dir, name)

\* PathBuf::pop: the parent, or the path itself when there is no parent.
Pop(dir) == IF dir = <<>> THEN dir ELSE SubSeq(dir, 1, Len(dir) - 1)

\* Path::file_name
FileName(p) == p[Len(p)]

RECURSIVE Components(_)
Components(pieces) ==
    IF pieces = <<>> THEN <<>>
    ELSE LET c == pieces[1] IN
         IF c = <<>> \/ c = <<".">> THEN Components(Tail(pieces))
         ELSE IF Len(c) = 1 THEN <<c[1]>> \o Components(Tail(pieces))
         ELSE <<"<no such name>">> \o Components(Tail(pieces))

\* PathBuf::from(text), as the components from the root that the operating
\* system is given: a rooted text names its components, any other text is
\* relative to the working directory, and the empty text names nothing.
\* Repeated separators and "." name no component of their own, except a "."
\* that begins a text without a root (the pop of "." is the empty path, the
\* working directory); ".." is kept as a component (join, pop and file_name
\* work on the components, the operating system finds the parent when the
\* path is used).
PathBufFrom(text) ==
    LET pieces == SplitOn(text, "/", <<>>)
        comps == Components(pieces)
    IN  IF text = <<>> THEN <<"<no such name>">>
        ELSE IF text[1] = "/" THEN comps
        ELSE IF pieces[1] = <<".">> THEN CWD \o <<".">> \o comps
        ELSE CWD \o comps

\* --------------------------------------------------------------- filesystem
Dir == [kind |-> "dir", data |-> <<>>, mode |-> MODE_0755]
RegularFile(data, mode) == [kind |-> "file", data |-> data, mode |-> mode]

\* The place a path names: the operating system walks its components from
\* the root; "." is the directory reached so far, ".." is its parent (the
\* root is its own parent), and a component of something that is not a
\* directory names nothing.
Nowhere == <<"<no such name>", "<no such name>">>

RECURSIVE Walk(_, _, _)
Walk(f, cur, rest) ==
    IF rest = <<>> THEN cur
    ELSE IF ~(cur \in DOMAIN f /\ f[cur].kind = "dir") THEN Nowhere
    ELSE IF rest[1] = "." THEN Walk(f, cur, Tail(rest))
    ELSE IF rest[1] = ".." THEN Walk(f, Pop(cur), Tail(rest))
    ELSE Walk(f, Append(cur, rest[1]), Tail(rest))

Real(f, p) == Walk(f, <<>>, p)

\* The node at a path that exists.
Node(f, p) == f[Real(f, p)]

Exists(f, p) == Real(f, p) \in DOMAIN f
IsDir(f, p) == Exists(f, p) /\ Node(f, p).kind = "dir"
IsFile(f, p) == Exists(f, p) /\ Node(f, p).kind = "file"

\* File::open(p): a directory opens (reads fail later), a regular file opens
\* when its owner may read it.
CanOpen(f, p) ==
    Exists(f, p) /\ (Node(f, p).kind = "dir" \/ BitAnd(Node(f, p).mode, OWNER_READ) # 0)

Ok(p) == [ok |-> TRUE, path |-> p, err |-> "none"]
Err(e) == [ok |-> FALSE, path |-> <<>>, err |-> e]

\* ----------------------------------------------------------- resolve_gitdir
\* Mutant: only the start directory is looked at, its parents never.
resolve_loop_no_parent(f, dir) ==
    LET gitdir_ == Join(dir, ".git") IN
    IF IsDir(f, gitdir_) THEN Ok(gitdir_)
    ELSE IF IsFile(f, gitdir_) THEN
        IF ~CanOpen(f, gitdir_) THEN Err("Io")
        ELSE IF \E i \in 1..Len(Node(f, gitdir_).data) : Node(f, gitdir_).data[i] = INVALID_UTF8
             THEN Err("Io")
        ELSE LET target == PathBufFrom(TrimRightNewlines(Node(f, gitdir_).data)) IN
             IF ~IsDir(f, target) THEN Err("GitDirNotFound") ELSE Ok(target)
    ELSE Err("GitDirNotFound")

\* Mutant: a `.git` file that names no directory does not end the search.
RECURSIVE resolve_loop_searches_on(_, _)
resolve_loop_searches_on(f, dir) ==
    LET gitdir_ == Join(dir, ".git")
        target == PathBufFrom(TrimRightNewlines(Node(f, gitdir_).data))
    IN
    IF IsDir(f, gitdir_) THEN Ok(gitdir_)
    ELSE IF IsFile(f, gitdir_) /\ ~CanOpen(f, gitdir_) THEN Err("Io")
    ELSE IF IsFile(f, gitdir_)
            /\ \E i \in 1..Len(Node(f, gitdir_).data) : Node(f, gitdir_).data[i] = INVALID_UTF8
         THEN Err("Io")
    ELSE IF IsFile(f, gitdir_) /\ IsDir(f, target) THEN Ok(target)
    ELSE IF dir = <<>> THEN Err("GitDirNotFound")
    ELSE resolve_loop_searches_on(f, Pop(dir))

RECURSIVE resolve_loop(_, _)
resolve_loop(f, dir) ==
    LET gitdir_ == Join(dir, ".git") IN
    IF IsDir(f, gitdir_) THEN Ok(gitdir_)
    ELSE IF IsFile(f, gitdir_) THEN
        IF ~CanOpen(f, gitdir_) THEN Err("Io")
        ELSE IF \E i \in 1..Len(Node(f, gitdir_).data) : Node(f, gitdir_).data[i] = INVALID_UTF8
             THEN Err("Io")
        ELSE LET target == PathBufFrom(TrimRightNewlines(Node(f, gitdir_).data)) IN
             IF ~IsDir(f, target) THEN Err("GitDirNotFound") ELSE Ok(target)
    ELSE IF dir = <<>> THEN Err("GitDirNotFound")
    ELSE resolve_loop(f, Pop(dir))

\* fs::canonicalize of a path without a root: the place it names from the
\* working directory, free of "." and ".."; it fails on the empty text and
\* on a path that does not exist.
canonicalize(f, p) ==
    IF p # <<>> /\ Exists(f, CWD \o p) THEN Ok(Real(f, CWD \o p)) ELSE Err("Io")

\* env::var("OUT_DIR")? fails when the variable is not set; PathBuf::from
\* keeps the components of the text ("." is none); a path without a root
\* goes through fs::canonicalize.
resolve_gitdir(f, od) ==
    IF ~od.set THEN Err("OutDir")
    ELSE IF od.rooted THEN resolve_loop(f, SelectSeq(od.path, LAMBDA c : c # "."))
    ELSE LET dir == canonicalize(f, od.path) IN
         IF dir.ok THEN resolve_loop(f, dir.path) ELSE Err("Io")

\* ------------------------------------------------------ hook_already_exists
\* io::BufReader::new(f).lines().nth(2): "None", "Err" or the third line.
\* Reading a directory fails at every call of next().
ThirdLine(f, hook) ==
    IF Node(f, hook).kind = "dir" THEN [tag |-> "Err", s |-> <<>>]
    ELSE LET ls == BufLines(Node(f, hook).data) IN
         IF Len(ls) < 3 THEN [tag |-> "None", s |-> <<>>]
         ELSE IF ls[3].err THEN [tag |-> "Err", s |-> <<>>]
         ELSE [tag |-> "Line", s |-> ls[3].s]

ver_comment == <<MARK, " v">> \o CARGO_PKG_VERSION

\* Mutant: an error on any of the first three lines counts, not only one on
\* the third.
hook_already_exists_any_error(f, hook) ==
    IF ~CanOpen(f, hook) THEN FALSE
    ELSE LET ver_line == ThirdLine(f, hook) IN
         IF ver_line.tag = "None" THEN TRUE
         ELSE IF ver_line.tag = "Err" THEN FALSE
         ELSE IF \E i \in 1..2 : BufLines(Node(f, hook).data)[i].err THEN FALSE
         ELSE IF ~Contains(ver_line.s, <<MARK>>) THEN TRUE
         ELSE Contains(ver_line.s, ver_comment)

\* Mutant: a hook of any version of cargo-husky is never replaced.
hook_already_exists_never_upgrades(f, hook) ==
    IF ~CanOpen(f, hook) THEN FALSE
    ELSE LET ver_line == ThirdLine(f, hook) IN
         IF ver_line.tag = "None" THEN TRUE
         ELSE IF ver_line.tag = "Err" THEN FALSE
         ELSE TRUE

hook_already_exists(f, hook) ==
    IF ~CanOpen(f, hook) THEN FALSE
    ELSE LET ver_line == ThirdLine(f, hook) IN
         IF ver_line.tag = "None" THEN TRUE
         ELSE IF ver_line.tag = "Err" THEN FALSE
         ELSE IF ~Contains(ver_line.s, <<MARK>>) THEN TRUE
         ELSE Contains(ver_line.s, ver_comment)

\* ------------------------------------------------------------- write_script
\* The text of a path as the environment variable holds it.
RECURSIVE PathText(_)
PathText(p) ==
    IF p = <<>> THEN <<>>
    ELSE IF Len(p) = 1 THEN <<p[1]>>
    ELSE <<p[1], "/">> \o PathText(Tail(p))

\* env::var("OUT_DIR").unwrap_or_else(|_| "".to_string())
OutDirText(od) ==
    IF ~od.set THEN <<>>
    ELSE IF od.rooted THEN <<"/">> \o PathText(od.path)
    ELSE PathText(od.path)

raw_cmd(c) == <<NL, "echo '+">> \o c \o <<"'", NL>> \o c

cmd(feat, c) ==
    IF "run-for-all" \in feat THEN raw_cmd(<<c, " --all">>) ELSE raw_cmd(<<c>>)

cmd_sub(feat, c, subflags) ==
    IF "run-for-all" \in feat
    THEN raw_cmd(<<c, " --all", " -- ", subflags>>)
    ELSE raw_cmd(<<c, " -- ", subflags>>)

\* Mutant: the fmt step is put first.
script_fmt_first(feat) ==
    (IF "run-cargo-fmt" \in feat
     THEN cmd_sub(feat, "cargo fmt", "--check") ELSE <<>>)
    \o (IF "run-cargo-test" \in feat THEN cmd(feat, "cargo test") ELSE <<>>)
    \o (IF "run-cargo-check" \in feat THEN cmd(feat, "cargo check") ELSE <<>>)
    \o (IF "run-cargo-clippy" \in feat
        THEN cmd_sub(feat, "cargo clippy", "-D warnings") ELSE <<>>)

script(feat) ==
    (IF "run-cargo-test" \in feat THEN cmd(feat, "cargo test") ELSE <<>>)
    \o (IF "run-cargo-check" \in feat THEN cmd(feat, "cargo check") ELSE <<>>)
    \o (IF "run-cargo-clippy" \in feat
        THEN cmd_sub(feat, "cargo clippy", "-D warnings") ELSE <<>>)
    \o (IF "run-cargo-fmt" \in feat
        THEN cmd_sub(feat, "cargo fmt", "--check") ELSE <<>>)

write_script(feat, od) ==
    <<"#!", "/bin/sh", NL,
      "#", NL,
      "# ", MARK, " v">> \o CARGO_PKG_VERSION \o <<": ", CARGO_PKG_HOMEPAGE, NL,
      "# Generated by script ", CARGO_MANIFEST_DIR, MAIN_SEPARATOR, "build.rs", NL,
      "# Output at ">> \o OutDirText(od) \o <<NL,
      "#", NL,
      NL,
      "set -e", NL>> \o script(feat) \o <<NL>>

\* --------------------------------------------------- create_executable_file
FsOk(f) == [ok |-> TRUE, fs |-> f]
FsErr(f) == [ok |-> FALSE, fs |-> f]

\* Mutant: create_new instead of create + truncate, an existing file is an
\* error.
create_executable_file_new(f, path) ==
    IF ~IsDir(f, Pop(path)) \/ path = <<>> THEN FsErr(f)
    ELSE IF ~Exists(f, path)
         THEN FsOk((Real(f, path) :> RegularFile(<<>>, MODE_0755 - BitAnd(MODE_0755, UMASK))) @@ f)
    ELSE FsErr(f)

\* Mutant: an existing file is opened for appending and not emptied.
create_executable_file_append(f, path) ==
    IF ~IsDir(f, Pop(path)) \/ path = <<>> THEN FsErr(f)
    ELSE IF ~Exists(f, path)
         THEN FsOk((Real(f, path) :> RegularFile(<<>>, MODE_0755 - BitAnd(MODE_0755, UMASK))) @@ f)
    ELSE IF Node(f, path).kind # "file" THEN FsErr(f)
    ELSE IF BitAnd(Node(f, path).mode, OWNER_WRITE) = 0 THEN FsErr(f)
    ELSE FsOk(f)

\* OpenOptions write + create + truncate + mode(0o755): the mode is given to a
\* file that is created, an existing file is emptied and keeps its mode.
create_executable_file(f, path) ==
    IF ~IsDir(f, Pop(path)) \/ path = <<>> THEN FsErr(f)
    ELSE IF ~Exists(f, path)
         THEN FsOk((Real(f, path) :> RegularFile(<<>>, MODE_0755 - BitAnd(MODE_0755, UMASK))) @@ f)
    ELSE IF Node(f, path).kind # "file" THEN FsErr(f)
    ELSE IF BitAnd(Node(f, path).mode, OWNER_WRITE) = 0 THEN FsErr(f)
    ELSE FsOk([f EXCEPT ![Real(f, path)].data = <<>>])

\* write_all on the handle that create_executable_file returned
WriteTo(f, path, text) == [f EXCEPT ![Real(f, path)].data = Node(f, path).data \o text]

\* ------------------------------------------------------------- install_hook
\* What a call leaves behind: the filesystem, its result, the files it
\* created or truncated and wrote, with the text written, and the calls of
\* hook_already_exists it made, with the answers.
Done(f, r, w, k) == [fs |-> f, res |-> r, wrote |-> w, checked |-> k]

Checked(f, path) == <<[path |-> path, exists |-> hook_already_exists(f, path)]>>

install_hook(f, od, feat, hook) ==
    LET g == resolve_gitdir(f, od) IN
    IF ~g.ok THEN Done(f, g.err, <<>>, <<>>)
    ELSE LET hook_path == Join(Join(g.path, "hooks"), hook) IN
         IF ~hook_already_exists(f, hook_path)
         THEN LET c == create_executable_file(f, hook_path) IN
              IF ~c.ok THEN Done(f, "Io", <<>>, Checked(f, hook_path))
              ELSE Done(WriteTo(c.fs, hook_path, write_script(feat, od)), "Ok",
                        <<[path |-> hook_path, data |-> write_script(feat, od)]>>,
                        Checked(f, hook_path))
         ELSE Done(f, "Ok", <<>>, Checked(f, hook_path))

\* -------------------------------------------------------- install_user_hook
\* Vec::insert(i, x) with i counted from 0
Insert(v, i, x) == SubSeq(v, 1, i) \o <<x>> \o SubSeq(v, i + 1, Len(v))

provenance_comment == <<"# ", MARK, " v">> \o CARGO_PKG_VERSION \o <<": ", CARGO_PKG_HOMEPAGE>>

\* Mutant: the first line is not looked at, "#" is always put first.
with_header_always_three(lines) ==
    LET l0 == Insert(lines, 0, <<"#">>)
        l1 == Insert(l0, 1, <<"#">>)
    IN  Insert(l1, 2, provenance_comment)

with_header(lines) ==
    LET l0 == IF ~StartsWith(lines[1], <<"#!">>) THEN Insert(lines, 0, <<"#">>) ELSE lines
        l1 == Insert(l0, 1, <<"#">>)
    IN  Insert(l1, 2, provenance_comment)

install_user_hook(f, src, dst) ==
    IF hook_already_exists(f, dst) THEN Done(f, "Ok", <<>>, Checked(f, dst))
    ELSE IF ~CanOpen(f, src) \/ Node(f, src).kind # "file" THEN Done(f, "Io", <<>>, Checked(f, dst))
    ELSE LET items == BufLines(Node(f, src).data) IN
         IF \E i \in 1..Len(items) : items[i].err THEN Done(f, "Io", <<>>, Checked(f, dst))
         ELSE IF items = <<>> THEN Done(f, "EmptyUserHook", <<>>, Checked(f, dst))
         ELSE LET lines == with_header([i \in 1..Len(items) |-> items[i].s])
                  dst_file_path == Join(dst, FileName(src))
                  c == create_executable_file(f, dst_file_path)
              IN  IF ~c.ok THEN Done(f, "Io", <<>>, Checked(f, dst))
                  ELSE Done(WriteTo(c.fs, dst_file_path, WriteLines(lines)), "Ok",
                            <<[path |-> dst_file_path, data |-> WriteLines(lines)]>>,
                            Checked(f, dst))

\* ------------------------------------------------------- install_user_hooks
\* Mutant: one of the read and execute bits is enough.
is_executable_file_any_bit(f, p) ==
    /\ Exists(f, p)
    /\ Node(f, p).kind = "file"
    /\ BitAnd(Node(f, p).mode, MODE_0555) # 0

is_executable_file(f, p) ==
    /\ Exists(f, p)
    /\ Node(f, p).kind = "file"
    /\ BitAnd(Node(f, p).mode, MODE_0555) = MODE_0555

\* fs::read_dir: the entries of the directory, in the order the filesystem
\* lists them.
read_dir(f, d, order) ==
    LET names == SelectSeq(order, LAMBDA n : Exists(f, Join(d, n)))
    IN  [i \in 1..Len(names) |-> Join(d, names[i])]

user_hooks_dir_of(git_dir) == Join(Join(Pop(git_dir), ".cargo-husky"), "hooks")

\* Mutant: a directory without any executable file is accepted, the loop then
\* has nothing to install.
user_hooks_begin_accepts_empty(f, od, order) ==
    LET g == resolve_gitdir(f, od) IN
    IF ~g.ok THEN [res |-> g.err, paths |-> <<>>]
    ELSE LET user_hooks_dir == user_hooks_dir_of(g.path) IN
         IF ~IsDir(f, user_hooks_dir) THEN [res |-> "InvalidUserHooksDir", paths |-> <<>>]
         ELSE [res |-> "Ok",
               paths |-> SelectSeq(read_dir(f, user_hooks_dir, order),
                                   LAMBDA p : is_executable_file(f, p))]

\* install_user_hooks up to its loop: the error it returns, or the hooks to
\* install.
user_hooks_begin(f, od, order) ==
    LET g == resolve_gitdir(f, od) IN
    IF ~g.ok THEN [res |-> g.err, paths |-> <<>>]
    ELSE LET user_hooks_dir == user_hooks_dir_of(g.path) IN
         IF ~IsDir(f, user_hooks_dir) THEN [res |-> "InvalidUserHooksDir", paths |-> <<>>]
         ELSE LET ps == SelectSeq(read_dir(f, user_hooks_dir, order),
                                  LAMBDA p : is_executable_file(f, p))
              IN  IF ps = <<>> THEN [res |-> "InvalidUserHooksDir", paths |-> <<>>]
                  ELSE [res |-> "Ok", paths |-> ps]

\* ------------------------------------------------------------------ install
HookOrder == <<"pre-push", "pre-commit", "post-merge">>

FeatureOf(hook) ==
    CASE hook = "pre-push" -> "prepush-hook"
      [] hook = "pre-commit" -> "precommit-hook"
      [] hook = "post-merge" -> "postmerge-hook"

\* where install() goes after the statement for the hook
AfterHook(hook) ==
    CASE hook = "pre-push" -> "pre-commit"
      [] hook = "pre-commit" -> "post-merge"
      [] hook = "post-merge" -> "return"

NotRun == Err("not run")

\* Mutant: the `return` after install_user_hooks is missing and the feature is
\* not looked at, the fixed hooks are installed in every configuration.
Install_without_user_hooks ==
    /\ pc = "install"
    /\ pc' = "pre-push"
    /\ UNCHANGED <<gitdir, hook_paths, err>>
    /\ UNCHANGED <<fs, out_dir, features, dir_order, pass, result, warned, snaps,
                   visited, written, checks, procs>>

\* install(), first statement: user-hooks mode runs install_user_hooks up to
\* its loop, any other configuration goes on to the fixed hooks.
Install ==
    /\ pc = "install"
    /\ IF "user-hooks" \in features
       THEN LET b == user_hooks_begin(fs, out_dir, dir_order) IN
            /\ gitdir' = resolve_gitdir(fs, out_dir)
            /\ hook_paths' = b.paths
            /\ err' = b.res
            /\ pc' = IF b.res = "Ok" THEN "user_hook" ELSE "return"
       ELSE /\ pc' = "pre-push"
            /\ UNCHANGED <<gitdir, hook_paths, err>>
    /\ UNCHANGED <<fs, out_dir, features, dir_order, pass, result, warned, snaps,
                   visited, written, checks, procs>>

\* Mutant: the result of install_hook is dropped (no `?`), the next hook
\* is installed whatever happened.
InstallHook_ignores_error(hook) ==
    /\ pc = hook
    /\ IF FeatureOf(hook) \in features
       THEN LET r == install_hook(fs, out_dir, features, hook) IN
            /\ gitdir' = resolve_gitdir(fs, out_dir)
            /\ fs' = r.fs
            /\ err' = r.res
            /\ visited' = Append(visited, hook)
            /\ written' = written \o r.wrote
            /\ checks' = checks \o r.checked
            /\ pc' = AfterHook(hook)
       ELSE /\ pc' = AfterHook(hook)
            /\ UNCHANGED <<gitdir, fs, err, visited, written, checks>>
    /\ UNCHANGED <<out_dir, features, dir_order, pass, hook_paths, result, warned, snaps,
                   procs>>

\* Mutant: the cfg!(feature) test is missing, every hook is installed.
InstallHook_ignores_feature(hook) ==
    /\ pc = hook
    /\ LET r == install_hook(fs, out_dir, features, hook) IN
            /\ gitdir' = resolve_gitdir(fs, out_dir)
            /\ fs' = r.fs
            /\ err' = r.res
            /\ visited' = Append(visited, hook)
            /\ written' = written \o r.wrote
            /\ checks' = checks \o r.checked
            /\ pc' = IF r.res = "Ok" THEN AfterHook(hook) ELSE "return"
    /\ UNCHANGED <<out_dir, features, dir_order, pass, hook_paths, result, warned, snaps,
                   procs>>

\* install(), one of the three statements  if cfg!(..) { install_hook(..)?; }
InstallHook(hook) ==
    /\ pc = hook
    /\ IF FeatureOf(hook) \in features
       THEN LET r == install_hook(fs, out_dir, features, hook) IN
            /\ gitdir' = resolve_gitdir(fs, out_dir)
            /\ fs' = r.fs
            /\ err' = r.res
            /\ visited' = Append(visited, hook)
            /\ written' = written \o r.wrote
            /\ checks' = checks \o r.checked
            /\ pc' = IF r.res = "Ok" THEN AfterHook(hook) ELSE "return"
       ELSE /\ pc' = AfterHook(hook)
            /\ UNCHANGED <<gitdir, fs, err, visited, written, checks>>
    /\ UNCHANGED <<out_dir, features, dir_order, pass, hook_paths, result, warned, snaps,
                   procs>>

\* install_user_hooks, one round of its loop (or its end)
InstallUserHook ==
    /\ pc = "user_hook"
    /\ IF hook_paths = <<>>
       THEN /\ pc' = "return"
            /\ UNCHANGED <<fs, err, hook_paths, visited, written, checks>>
       ELSE LET path == Head(hook_paths)
                r == install_user_hook(fs, path, Join(gitdir.path, "hooks"))
            IN  /\ fs' = r.fs
                /\ err' = r.res
                /\ visited' = Append(visited, FileName(path))
                /\ written' = written \o r.wrote
                /\ checks' = checks \o r.checked
                /\ hook_paths' = Tail(hook_paths)
                /\ pc' = IF r.res = "Ok" THEN "user_hook" ELSE "return"
    /\ UNCHANGED <<out_dir, features, dir_order, pass, result, warned, gitdir, snaps,
                   procs>>

\* Mutant: main() returns what install() returned, GitDirNotFound too.
Main_returns_every_error ==
    /\ pc = "return"
    /\ result' = err
    /\ warned' = FALSE
    /\ snaps' = Append(snaps, fs)
    /\ pc' = "done"
    /\ UNCHANGED <<fs, out_dir, features, dir_order, pass, hook_paths, err, gitdir,
                   visited, written, checks, procs>>

\* main(): GitDirNotFound becomes a warning, anything else is returned.
Main ==
    /\ pc = "return"
    /\ result' = IF err = "GitDirNotFound" THEN "Ok" ELSE err
    /\ warned' = (err = "GitDirNotFound")
    /\ snaps' = Append(snaps, fs)
    /\ pc' = "done"
    /\ UNCHANGED <<fs, out_dir, features, dir_order, pass, hook_paths, err, gitdir,
                   visited, written, checks, procs>>

\* The next build runs the build script again, in the same environment.
NextBuild ==
    /\ pc = "done"
    /\ pass < MaxPasses
    /\ pass' = pass + 1
    /\ pc' = "install"
    /\ err' = "Ok"
    /\ result' = "none"
    /\ warned' = FALSE
    /\ gitdir' = NotRun
    /\ hook_paths' = <<>>
    /\ visited' = <<>>
    /\ written' = <<>>
    /\ checks' = <<>>
    /\ UNCHANGED <<fs, out_dir, features, dir_order, snaps, procs>>

Next ==
    \/ Install
    \/ \E hook \in {"pre-push", "pre-commit", "post-merge"} : InstallHook(hook)
    \/ InstallUserHook
    \/ Main
    \/ NextBuild

\* --------------------------------------------------- the initial filesystems
NoNode == [kind |-> "none", data |-> <<>>, mode |-> 0]

\* The filesystem holding the entries <<path, node>> of S that are nodes.
MkFs(S) ==
    LET present == {e \in S : e[2].kind # "none"} IN
    [p \in {e[1] : e \in present} |-> (CHOOSE e \in present : e[1] = p)[2]]

Shebang == <<"#!", "/bin/sh">>
MarkerLineStart(version) == <<"# ", MARK, " v">> \o version
MarkerLine(version) == MarkerLineStart(version) \o <<": ", CARGO_PKG_HOMEPAGE>>
OtherVersion == <<"0.5.", "2">>
LongerVersion == <<"0.5.", "1", "0">>

MODE_0644 == 6 * 64 + 4 * 8 + 4
MODE_0200 == OWNER_WRITE

\* Hook files somebody else wrote.
ForeignOneLine == RegularFile(<<"echo hi", NL>>, MODE_0755)
ForeignNoNewline == RegularFile(<<"echo hi", NL, "exit 0">>, MODE_0755)
ForeignThreeLines ==
    RegularFile(WriteLines(<<Shebang, <<"# my hook">>, <<"make test">>, <<"make lint">>>>),
                MODE_0755)
ForeignInvalidThird ==
    RegularFile(WriteLines(<<Shebang, <<"#">>, <<"# caf", INVALID_UTF8>>, <<"make test">>>>),
                MODE_0755)
ForeignInvalidFirst ==
    RegularFile(WriteLines(<<<<"# caf", INVALID_UTF8>>, <<"# my hook">>, <<"make test">>>>),
                MODE_0755)
ForeignMarkerElsewhere ==
    RegularFile(WriteLines(<<Shebang, MarkerLine(OtherVersion), <<"make test">>>>), MODE_0755)
ForeignWriteOnly == RegularFile(<<"echo hi", NL>>, MODE_0200)
EmptyFile == RegularFile(<<>>, MODE_0755)
\* Hook files an earlier build of cargo-husky (of some version) wrote.
OwnHook(version, mode) ==
    RegularFile(WriteLines(<<Shebang, <<"#">>, MarkerLine(version), <<"set -e">>,
                            <<"cargo test">>>>), mode)

FixedSlotNodes ==
    {NoNode, Dir, ForeignOneLine, ForeignNoNewline, ForeignThreeLines, ForeignInvalidThird,
     ForeignMarkerElsewhere, ForeignWriteOnly, EmptyFile,
     OwnHook(CARGO_PKG_VERSION, MODE_0755), OwnHook(OtherVersion, MODE_0755),
     OwnHook(LongerVersion, MODE_0755), OwnHook(OtherVersion, MODE_0555),
     OwnHook(OtherVersion, MODE_0644)}

Repo == <<"r">>
RepoGit == <<"r", ".git">>
RepoHooks == <<"r", ".git", "hooks">>
RepoUserHooks == <<"r", ".cargo-husky", "hooks">>
Worktree == <<"w">>

BaseDirs == {<<<<>>, Dir>>, <<CWD, Dir>>, <<Repo, Dir>>, <<<<"r", "s">>, Dir>>}

HookFeatures == {"prepush-hook", "precommit-hook", "postmerge-hook"}
StepFeatures == {"run-cargo-test", "run-cargo-check", "run-cargo-clippy", "run-cargo-fmt",
                 "run-for-all"}
DefaultSteps == {"run-cargo-test", "run-cargo-clippy"}
UserHookNames == {"pre-commit", "commit-msg"}
DirOrders == {<<"pre-commit", "commit-msg">>, <<"commit-msg", "pre-commit">>}

Start(f, od, feat, order) ==
    /\ fs = f
    /\ out_dir = od
    /\ features = feat
    /\ dir_order = order
    /\ pc = "install"
    /\ pass = 1
    /\ hook_paths = <<>>
    /\ err = "Ok"
    /\ result = "none"
    /\ warned = FALSE
    /\ gitdir = NotRun
    /\ snaps = <<f>>
    /\ visited = <<>>
    /\ written = <<>>
    /\ checks = <<>>
    /\ procs = <<>>

Rooted(p) == [set |-> TRUE, rooted |-> TRUE, path |-> p]
Relative(p) == [set |-> TRUE, rooted |-> FALSE, path |-> p]
\* OUT_DIR is not in the environment.
NotPresent == [set |-> FALSE, rooted |-> FALSE, path |-> <<>>]

\* Fixed-hook mode in a repository: every content of the three hook files.
InitFixed ==
    \E hooks \in {Dir, NoNode}, enabled \in SUBSET HookFeatures :
    \E n1 \in FixedSlotNodes, n2 \in FixedSlotNodes,
       n3 \in {NoNode, Dir, ForeignOneLine, ForeignInvalidThird, ForeignInvalidFirst,
               OwnHook(OtherVersion, MODE_0755)} :
        /\ hooks = NoNode => (n1 = NoNode /\ n2 = NoNode /\ n3 = NoNode)
        /\ Start(MkFs(BaseDirs \cup {<<RepoGit, Dir>>, <<RepoHooks, hooks>>,
                                     <<Join(RepoHooks, "pre-push"), n1>>,
                                     <<Join(RepoHooks, "pre-commit"), n2>>,
                                     <<Join(RepoHooks, "post-merge"), n3>>}),
                 Rooted(<<"r", "s">>), enabled \cup DefaultSteps, <<"pre-commit", "commit-msg">>)

\* User hooks an operator wrote, as entries of <repo>/.cargo-husky/hooks.
UserScript(lines, mode) == RegularFile(WriteLines(lines), mode)
UserSourceNodes ==
    {NoNode, Dir, EmptyFile,
     UserScript(<<Shebang, <<"cargo test">>>>, MODE_0755),
     UserScript(<<Shebang>>, MODE_0555),
     UserScript(<<<<"cargo test">>>>, MODE_0755),
     UserScript(<<<<"# lint">>, <<"cargo clippy">>, <<"cargo fmt">>>>, MODE_0755),
     UserScript(<<Shebang, <<"cargo test">>>>, MODE_0644),
     UserScript(<<Shebang, <<"# caf", INVALID_UTF8>>>>, MODE_0755),
     RegularFile(<<"#!", "/bin/sh", CR, NL, "cargo test", CR, NL, "exit 0">>, MODE_0755)}

UserDestNodes ==
    {NoNode, Dir, ForeignOneLine, ForeignThreeLines, OwnHook(CARGO_PKG_VERSION, MODE_0755),
     OwnHook(OtherVersion, MODE_0755), OwnHook(OtherVersion, MODE_0555)}

\* User-hooks mode in a repository: every user hook source and what the hooks
\* directory holds under the same names.
InitUser ==
    \E s1 \in UserSourceNodes, s2 \in UserSourceNodes, d1 \in UserDestNodes,
       d2 \in {NoNode, ForeignOneLine, OwnHook(OtherVersion, MODE_0755)},
       order \in DirOrders, more \in {{}, {"prepush-hook", "precommit-hook"}} :
        Start(MkFs(BaseDirs \cup {<<RepoGit, Dir>>, <<RepoHooks, Dir>>,
                                  <<<<"r", ".cargo-husky">>, Dir>>, <<RepoUserHooks, Dir>>,
                                  <<Join(RepoUserHooks, "pre-commit"), s1>>,
                                  <<Join(RepoUserHooks, "commit-msg"), s2>>,
                                  <<Join(RepoHooks, "pre-commit"), d1>>,
                                  <<Join(RepoHooks, "commit-msg"), d2>>}),
              Rooted(<<"r", "s">>), {"user-hooks"} \cup more \cup DefaultSteps, order)

\* The hooks directory or the user hooks directory is missing or is a file.
InitNoDirs ==
    \E hooks \in {NoNode, Dir, EmptyFile}, husky \in {NoNode, Dir},
       user_hooks \in {NoNode, Dir, EmptyFile},
       feat \in {{"user-hooks"}, {"prepush-hook", "postmerge-hook"}} :
        /\ husky = NoNode => user_hooks = NoNode
        /\ Start(MkFs(BaseDirs \cup {<<RepoGit, Dir>>, <<RepoHooks, hooks>>,
                         <<<<"r", ".cargo-husky">>, husky>>, <<RepoUserHooks, user_hooks>>,
                         <<Join(RepoUserHooks, "pre-commit"),
                           IF user_hooks = Dir
                           THEN UserScript(<<Shebang, <<"cargo test">>>>, MODE_0755)
                           ELSE NoNode>>}),
                 Rooted(<<"r", "s">>), feat \cup DefaultSteps, <<"pre-commit", "commit-msg">>)

\* What a `.git` entry can be: nothing, a directory, or the file of a linked
\* worktree or submodule with the text of a path in it.
GitFile(text) == RegularFile(text, MODE_0644)
GitEntryNodes ==
    {NoNode, Dir,
     GitFile(<<"/", "w">>), GitFile(<<"/", "w", NL>>), GitFile(<<"/", "w", CR, NL>>),
     GitFile(<<"/", "w", NL, CR, NL>>), GitFile(<<NL, "/", "w", NL>>),
     GitFile(<<"/", "w", "/", NL>>), GitFile(<<"/", "w", NL, "/", "w", NL>>),
     GitFile(<<"/", "missing", NL>>), GitFile(<<"/", "r", "/", ".git", NL>>),
     GitFile(<<"gitdir: ", "/", "w", NL>>), GitFile(<<>>), GitFile(<<NL>>),
     GitFile(<<"/", "w", INVALID_UTF8, NL>>), RegularFile(<<"/", "w", NL>>, MODE_0200),
     GitFile(<<"/", "r", "/", "..", "/", "w", NL>>), GitFile(<<"/", "w", "/", ".", NL>>),
     GitFile(<<"/", "w", "/", "hooks", "/", "..", NL>>),
     GitFile(<<"/", "missing", "/", "..", "/", "w", NL>>), GitFile(<<".", NL>>)}

OutDirs ==
    {Rooted(<<>>), Rooted(<<"r">>), Rooted(<<"r", "s">>), Rooted(<<"r", "s", "t", "u">>),
     Rooted(<<"r", "s", "..">>), Relative(<<"o">>), Relative(<<"o", "..">>),
     Relative(<<"nowhere">>), Relative(<<>>), NotPresent}

\* The `.git` entries every placement is tried with.
GitEntrySamples ==
    {NoNode, Dir, GitFile(<<"/", "w", NL>>), GitFile(<<"/", "missing", NL>>)}

HooksUnder(p, node) == <<Join(p, "hooks"), IF node = Dir THEN Dir ELSE NoNode>>
SampleUserHook(p, name) ==
    {<<Join(p, ".cargo-husky"), Dir>>, <<Join(Join(p, ".cargo-husky"), "hooks"), Dir>>,
     <<Join(Join(Join(p, ".cargo-husky"), "hooks"), name),
       UserScript(<<Shebang, <<"cargo test">>>>, MODE_0755)>>}

\* The placements of `.git` entries above the output directory: every kind
\* of entry at one level, next to each of the common kinds at the other.
InitResolve ==
    \E g0 \in {NoNode, Dir}, g1 \in GitEntryNodes, g2 \in GitEntryNodes, od \in OutDirs,
       feat \in {{"user-hooks"}, {"precommit-hook"}} :
        /\ g1 \in GitEntrySamples \/ g2 \in GitEntrySamples
        /\ Start(MkFs(BaseDirs
                      \cup {<<Join(CWD, "o"), Dir>>, <<Worktree, Dir>>,
                            <<Join(Worktree, "hooks"), Dir>>,
                            <<<<".git">>, g0>>, <<<<"r", ".git">>, g1>>,
                            <<<<"r", "s", ".git">>, g2>>,
                            HooksUnder(<<".git">>, g0), HooksUnder(<<"r", ".git">>, g1),
                            HooksUnder(<<"r", "s", ".git">>, g2)}
                      \cup {<<Join(CWD, "hooks"), Dir>>}
                      \cup SampleUserHook(<<>>, "pre-commit")
                      \cup SampleUserHook(<<"r">>, "pre-commit")
                      \cup SampleUserHook(<<"r", "s">>, "pre-commit")
                      \cup SampleUserHook(CWD, "commit-msg")),
                 od, feat \cup DefaultSteps, <<"pre-commit", "commit-msg">>)

\* Every combination of the command steps of the generated script.
InitScript ==
    \E steps \in SUBSET StepFeatures, n \in {NoNode, OwnHook(OtherVersion, MODE_0755)},
       od \in {Rooted(<<"r", "s">>), Rooted(<<"r">>)} :
        Start(MkFs(BaseDirs \cup {<<RepoGit, Dir>>, <<RepoHooks, Dir>>,
                                  <<Join(RepoHooks, "pre-commit"), n>>}),
              od, {"precommit-hook"} \cup steps, <<"pre-commit", "commit-msg">>)

\* Permission bits of user hook sources: all of r-x for everybody, and modes
\* that lack a read or an execute bit of the owner, the group or the others.
Mode(owner, group, others) == owner * 64 + group * 8 + others
ModeSamples ==
    {Mode(7, 7, 7), Mode(7, 5, 5), Mode(5, 5, 5), Mode(5, 7, 5),
     Mode(7, 5, 0), Mode(7, 0, 5), Mode(0, 5, 5), Mode(6, 5, 5), Mode(3, 5, 5),
     Mode(7, 4, 5), Mode(7, 5, 4), Mode(7, 1, 5), Mode(7, 5, 1), Mode(7, 0, 0),
     Mode(4, 4, 4), Mode(1, 1, 1), Mode(0, 0, 0)}

\* User-hooks mode: a user hook of every sampled mode next to another entry.
InitEligibility ==
    \E m \in ModeSamples, order \in DirOrders,
       s2 \in {NoNode, Dir, UserScript(<<<<"cargo test">>>>, MODE_0755),
               UserScript(<<Shebang, <<"cargo test">>>>, MODE_0644)} :
        Start(MkFs(BaseDirs \cup {<<RepoGit, Dir>>, <<RepoHooks, Dir>>,
                                  <<<<"r", ".cargo-husky">>, Dir>>, <<RepoUserHooks, Dir>>,
                                  <<Join(RepoUserHooks, "pre-commit"),
                                    UserScript(<<Shebang, <<"cargo test">>>>, m)>>,
                                  <<Join(RepoUserHooks, "commit-msg"), s2>>}),
              Rooted(<<"r", "s">>), {"user-hooks"} \cup DefaultSteps, order)

Init == InitFixed \/ InitUser \/ InitNoDirs \/ InitResolve \/ InitScript \/ InitEligibility

Spec == Init /\ [][Next]_vars

\* ======================================================================
\* Build scripts that run at the same time on one repository.
\* Every system call that reads or writes a hook file is a step of its own
\* (a read takes the buffer's capacity at most, a BufWriter writes when its
\* buffer is full): the build scripts take no lock.  procs[p] is the build
\* script p:
\*   pc      where it is: "install", "resolve_gitdir", "loop", "open", "read",
\*           "create", "write", "user_hooks", "user_hook", "user_check",
\*           "user_open", "user_read", "user_create", "user_write", "done"
\*   hook    the position in HookOrder of the hook it is at
\*   dir, iters, follows   resolve_gitdir: the directory the loop is at, the
\*           iterations it made and the `.git` files it read for this hook
\*   git_dir what resolve_gitdir returned for this hook
\*   paths, lines, text   install_user_hooks: the user hooks still to
\*           install, the lines install_user_hook has read, and what its
\*           BufWriter writes, call by call
\*   inlined whether the compiler put the literal arguments of writeln! into
\*           its format string
\*   roff, got, cur   hook_already_exists: the offset of the reader in the
\*           file (in bytes), the number of lines obtained, the unfinished
\*           line; install_user_hook reads its source with roff and cur
\*   piece, woff      write_script, install_user_hook: the next piece to
\*           write and the offset of the file handle (in bytes)
\*   res     what install() returned ("none" while it runs)
\*   log     what it did: records [hook, event]; create_executable_file is
\*           "created" (no file was there), "reopened" (an empty file was
\*           there) or "truncated" (a file with content was there)
\* ======================================================================
\* writeln!(w, "...{}...", ..): fmt::write calls write_all once for every
\* literal piece of the format string and once for every argument that is
\* not empty; a File is not buffered.  Where the pieces begin and end is the
\* compiler's choice: when it puts the arguments that are literals (the
\* env!(..) ones) into the format string, the text up to MAIN_SEPARATOR is
\* one piece; when it does not, every argument is a piece of its own.
write_script_pieces(feat, od, inlined) ==
    SelectSeq(IF inlined
              THEN << <<"#!", "/bin/sh", NL, "#", NL, "# ", MARK, " v">>
                        \o CARGO_PKG_VERSION \o <<": ", CARGO_PKG_HOMEPAGE>>
                        \o <<NL, "# Generated by script ", CARGO_MANIFEST_DIR>>,
                      <<MAIN_SEPARATOR>>,
                      <<"build.rs", NL, "# Output at ">>,
                      OutDirText(od),
                      <<NL, "#", NL, NL, "set -e", NL>>,
                      script(feat),
                      <<NL>> >>
              ELSE << <<"#!", "/bin/sh", NL, "#", NL, "# ", MARK, " v">>,
                      CARGO_PKG_VERSION,
                      <<": ">>,
                      <<CARGO_PKG_HOMEPAGE>>,
                      <<NL, "# Generated by script ">>,
                      <<CARGO_MANIFEST_DIR>>,
                      <<MAIN_SEPARATOR>>,
                      <<"build.rs", NL, "# Output at ">>,
                      OutDirText(od),
                      <<NL, "#", NL, NL, "set -e", NL>>,
                      script(feat),
                      <<NL>> >>,
              LAMBDA t : t # <<>>)

\* io::BufReader::new, io::BufWriter::new: the capacity of the buffer, which
\* is DEFAULT_BUF_SIZE of the standard library.
DEFAULT_BUF_SIZE == 8192

\* A run of bytes without a line end that, after the line "#!/bin/sh", ends
\* where the first buffer of a reader ends.
Run16 == "xxxxxxxxxxxxxxxx"
Run256 == Run16 \o Run16 \o Run16 \o Run16 \o Run16 \o Run16 \o Run16 \o Run16
          \o Run16 \o Run16 \o Run16 \o Run16 \o Run16 \o Run16 \o Run16 \o Run16
Run4096 == Run256 \o Run256 \o Run256 \o Run256 \o Run256 \o Run256 \o Run256 \o Run256
           \o Run256 \o Run256 \o Run256 \o Run256 \o Run256 \o Run256 \o Run256 \o Run256
LONG == SubSeq(Run4096 \o Run4096, 1, DEFAULT_BUF_SIZE - 10)

\* Runs of NUL bytes, the holes of a file written after its end: one atom
\* for 1, 2, 4, .. bytes, and the runs that make up n bytes.
NulRuns == [i \in 0..15 |-> "<nul x " \o ToString(2^i) \o ">"]
NulBytes == [a \in {NulRuns[i] : i \in 0..15} |->
                2^(CHOOSE i \in 0..15 : NulRuns[i] = a)]

RECURSIVE Holes(_)
Holes(n) ==
    IF n = 0 THEN <<>>
    ELSE LET i == CHOOSE j \in 0..15 : 2^j <= n /\ (j = 15 \/ 2^(j + 1) > n)
         IN  <<NulRuns[i]>> \o Holes(n - 2^i)

\* The bytes of an atom and of a text.  Offsets of file handles are in
\* bytes; a read or a write that begins or ends inside an atom divides it.
Bytes(atom) ==
    IF atom = INVALID_UTF8 THEN 1
    ELSE IF atom \in DOMAIN NulBytes THEN NulBytes[atom]
    ELSE Len(atom)

RECURSIVE Size(_)
Size(text) == IF text = <<>> THEN 0 ELSE Bytes(text[1]) + Size(Tail(text))

\* The first n bytes of a text.
RECURSIVE Take(_, _)
Take(text, n) ==
    IF text = <<>> \/ n = 0 THEN <<>>
    ELSE IF Bytes(text[1]) <= n THEN <<text[1]>> \o Take(Tail(text), n - Bytes(text[1]))
    ELSE IF text[1] \in DOMAIN NulBytes THEN Holes(n)
    ELSE <<SubSeq(text[1], 1, n)>>

\* A text from its byte n on.
RECURSIVE Drop(_, _)
Drop(text, n) ==
    IF text = <<>> \/ n = 0 THEN text
    ELSE IF Bytes(text[1]) <= n THEN Drop(Tail(text), n - Bytes(text[1]))
    ELSE IF text[1] \in DOMAIN NulBytes THEN Holes(Bytes(text[1]) - n) \o Tail(text)
    ELSE <<SubSeq(text[1], n + 1, Len(text[1]))>> \o Tail(text)

\* A text with the runs of NUL bytes that follow one another made one hole
\* (n bytes of NUL go before the text).
RECURSIVE Joined(_, _)
Joined(text, n) ==
    IF text = <<>> THEN Holes(n)
    ELSE IF text[1] \in DOMAIN NulBytes THEN Joined(Tail(text), n + NulBytes[text[1]])
    ELSE Holes(n) \o <<text[1]>> \o Joined(Tail(text), 0)

\* read(2) of a BufReader whose buffer is used up, on a handle whose offset
\* is off: what the file holds from there on, the buffer's capacity at
\* most; nothing at or after the end of the file.
ReadAt(data, off) == Take(Drop(data, off), DEFAULT_BUF_SIZE)

\* write(2) on a handle whose offset is off: the bytes replace what the file
\* holds there; a gap between the end of the file and off reads as NUL.
WriteAt(f, path, off, text) ==
    LET d == Node(f, path).data IN
    [f EXCEPT ![Real(f, path)].data =
        Joined(IF off >= Size(d) THEN d \o Holes(off - Size(d)) \o text
               ELSE Take(d, off) \o text \o Drop(d, off + Size(text)), 0)]

\* install_user_hook: what the BufWriter writes to the file, one text for
\* every write(2), when it is given `pieces` one after the other and holds
\* `buf`.  A piece that has no room in the buffer makes it write what it
\* holds; a piece as long as the buffer is written as it is; what the buffer
\* holds at the end is written when it is dropped.
RECURSIVE buf_writes(_, _)
buf_writes(pieces, buf) ==
    IF pieces = <<>> THEN (IF buf = <<>> THEN <<>> ELSE <<buf>>)
    ELSE LET x == pieces[1]
             flush == Size(x) > DEFAULT_BUF_SIZE - Size(buf)
             held == IF flush THEN <<>> ELSE buf
             out == IF flush /\ buf # <<>> THEN <<buf>> ELSE <<>>
         IN  IF Size(x) >= DEFAULT_BUF_SIZE
             THEN out \o <<x>> \o buf_writes(Tail(pieces), held)
             ELSE out \o buf_writes(Tail(pieces), held \o x)

\* writeln!(f, "{}", line) for every line: the line, then "\n"
RECURSIVE line_pieces(_)
line_pieces(ls) ==
    IF ls = <<>> THEN <<>> ELSE <<ls[1], <<NL>>>> \o line_pieces(Tail(ls))

\* hook_already_exists, once the third line is there
line_verdict(item) ==
    IF item.err THEN FALSE
    ELSE IF ~Contains(item.s, <<MARK>>) THEN TRUE
    ELSE Contains(item.s, ver_comment)

\* hook_already_exists: lines().nth(2) after one more read(2) of its
\* BufReader, by a reader that has got `got` lines, holds the unfinished
\* line `cur` and is at offset `roff`.  The lines in the buffer are taken
\* without another read.  At the end of the file an unfinished line is a
\* line, and no line at all ends the iteration.  Reading a directory fails.
lines_nth_2(me, node) ==
    LET chunk == ReadAt(node.data, me.roff)
        parts == SplitOn(me.cur \o chunk, NL, <<>>)
        whole == Len(parts) - 1
    IN  IF node.kind = "dir" THEN [answered |-> TRUE, exists |-> FALSE, me |-> me]
        ELSE IF chunk = <<>>
        THEN IF me.cur = <<>> THEN [answered |-> TRUE, exists |-> TRUE, me |-> me]
             ELSE IF me.got = 2
             THEN [answered |-> TRUE, exists |-> line_verdict(LineItem(me.cur, FALSE)),
                   me |-> me]
             ELSE [answered |-> FALSE, exists |-> FALSE,
                   me |-> [me EXCEPT !.got = me.got + 1, !.cur = <<>>]]
        ELSE IF me.got + whole >= 3
        THEN [answered |-> TRUE, exists |-> line_verdict(LineItem(parts[3 - me.got], TRUE)),
              me |-> me]
        ELSE [answered |-> FALSE, exists |-> FALSE,
              me |-> [me EXCEPT !.got = me.got + whole, !.cur = parts[Len(parts)],
                                !.roff = me.roff + Size(chunk)]]

seq_vars == <<out_dir, features, dir_order, pc, pass, hook_paths, err, result, warned,
              gitdir, snaps, visited, written, checks>>

HookOf(p) == HookOrder[procs[p].hook]
HookPath(p) == Join(Join(procs[p].git_dir, "hooks"), HookOf(p))
Logged(p, e) == Append(procs[p].log, [hook |-> HookOf(p), event |-> e])

\* install(): with user-hooks, install_user_hooks and nothing else; without,
\* the statement of the next hook, or Ok(()) after the last.
NextHook(p) ==
    /\ procs[p].pc = "install"
    /\ procs' = [procs EXCEPT ![p] =
           IF "user-hooks" \in features
           THEN [procs[p] EXCEPT !.pc = "user_hooks"]
           ELSE IF procs[p].hook > Len(HookOrder)
           THEN [procs[p] EXCEPT !.pc = "done", !.res = "Ok"]
           ELSE IF FeatureOf(HookOf(p)) \in features
           THEN [procs[p] EXCEPT !.pc = "resolve_gitdir"]
           ELSE [procs[p] EXCEPT !.hook = procs[p].hook + 1]]
    /\ UNCHANGED <<fs, seq_vars>>

\* install_user_hooks up to its loop: the control directory, the user hooks
\* directory and the executable files in it.
UserHooksBegin(p) ==
    /\ procs[p].pc = "user_hooks"
    /\ LET b == user_hooks_begin(fs, out_dir, dir_order) IN
       procs' = [procs EXCEPT ![p] =
           IF b.res # "Ok" THEN [procs[p] EXCEPT !.pc = "done", !.res = b.res]
           ELSE [procs[p] EXCEPT !.pc = "user_hook", !.paths = b.paths,
                                 !.git_dir = resolve_gitdir(fs, out_dir).path]]
    /\ UNCHANGED <<fs, seq_vars>>

\* The hook file of the user hook the build script is at.
UserHookPath(p) == Join(Join(procs[p].git_dir, "hooks"), FileName(Head(procs[p].paths)))

\* install_user_hooks, one round of its loop (or its end): install_user_hook
\* for the next executable file, up to File::open of hook_already_exists(dst).
UserHookNext(p) ==
    /\ procs[p].pc = "user_hook"
    /\ procs' = [procs EXCEPT ![p] =
           IF procs[p].paths = <<>> THEN [procs[p] EXCEPT !.pc = "done", !.res = "Ok"]
           ELSE IF ~CanOpen(fs, Join(procs[p].git_dir, "hooks"))
           THEN [procs[p] EXCEPT !.pc = "user_open"]
           ELSE [procs[p] EXCEPT !.pc = "user_check", !.roff = 0, !.got = 0, !.cur = <<>>]]
    /\ UNCHANGED <<fs, seq_vars>>

\* install_user_hook: hook_already_exists(dst), one read(2) of its
\* BufReader; when it answers true, the early return Ok(()).
UserHookCheck(p) ==
    /\ procs[p].pc = "user_check"
    /\ LET v == lines_nth_2(procs[p], Node(fs, Join(procs[p].git_dir, "hooks"))) IN
       procs' = [procs EXCEPT ![p] =
           IF ~v.answered THEN v.me
           ELSE IF v.exists
           THEN [procs[p] EXCEPT !.pc = "user_hook", !.paths = Tail(procs[p].paths)]
           ELSE [procs[p] EXCEPT !.pc = "user_open"]]
    /\ UNCHANGED <<fs, seq_vars>>

\* install_user_hook: File::open(src)?
UserHookOpen(p) ==
    /\ procs[p].pc = "user_open"
    /\ procs' = [procs EXCEPT ![p] =
           IF ~CanOpen(fs, Head(procs[p].paths))
           THEN [procs[p] EXCEPT !.pc = "done", !.res = "Io"]
           ELSE [procs[p] EXCEPT !.pc = "user_read", !.roff = 0, !.cur = <<>>,
                                 !.lines = <<>>]]
    /\ UNCHANGED <<fs, seq_vars>>

\* install_user_hook: the lines of the source, one read(2) of the
\* BufReader; `lines` are the lines it has pushed, `cur` the unfinished
\* line.  A line that is not UTF-8 is Error::Io when the line is there.  A
\* read that returns nothing ends the unfinished line, if there is one, and
\* the iteration if there is none: then no line is Error::EmptyUserHook,
\* else the header goes in and `text` is what the BufWriter will write.
UserHookRead(p) ==
    /\ procs[p].pc = "user_read"
    /\ LET me == procs[p]
           node == Node(fs, Head(me.paths))
           chunk == ReadAt(node.data, me.roff)
           parts == SplitOn(me.cur \o chunk, NL, <<>>)
           items == [i \in 1..(Len(parts) - 1) |-> LineItem(parts[i], TRUE)]
           last == LineItem(me.cur, FALSE)
       IN  procs' = [procs EXCEPT ![p] =
               IF node.kind # "file" THEN [me EXCEPT !.pc = "done", !.res = "Io"]
               ELSE IF chunk = <<>>
               THEN IF me.cur # <<>>
                    THEN IF last.err THEN [me EXCEPT !.pc = "done", !.res = "Io"]
                         ELSE [me EXCEPT !.lines = Append(me.lines, last.s), !.cur = <<>>]
                    ELSE IF me.lines = <<>>
                    THEN [me EXCEPT !.pc = "done", !.res = "EmptyUserHook"]
                    ELSE [me EXCEPT
                            !.pc = "user_create", !.lines = <<>>,
                            !.text = buf_writes(line_pieces(with_header(me.lines)), <<>>)]
               ELSE IF \E i \in 1..Len(items) : items[i].err
               THEN [me EXCEPT !.pc = "done", !.res = "Io"]
               ELSE [me EXCEPT !.lines = me.lines \o [i \in 1..Len(items) |-> items[i].s],
                               !.cur = parts[Len(parts)],
                               !.roff = me.roff + Size(chunk)]]
    /\ UNCHANGED <<fs, seq_vars>>

\* install_user_hook: create_executable_file(&dst_file_path)?
UserHookCreate(p) ==
    /\ procs[p].pc = "user_create"
    /\ LET c == create_executable_file(fs, UserHookPath(p)) IN
       /\ fs' = c.fs
       /\ procs' = [procs EXCEPT ![p] =
              IF ~c.ok THEN [procs[p] EXCEPT !.pc = "done", !.res = "Io"]
              ELSE [procs[p] EXCEPT !.pc = "user_write", !.piece = 1, !.woff = 0]]
    /\ UNCHANGED seq_vars

\* install_user_hook: one write(2) of the BufWriter, at the offset of its
\* own handle; after the last one the file is closed and install_user_hook
\* returns Ok(()).
UserHookWrite(p) ==
    /\ procs[p].pc = "user_write"
    /\ LET me == procs[p] IN
       /\ fs' = WriteAt(fs, UserHookPath(p), me.woff, me.text[me.piece])
       /\ procs' = [procs EXCEPT ![p] =
              IF me.piece < Len(me.text)
              THEN [me EXCEPT !.piece = me.piece + 1,
                              !.woff = me.woff + Size(me.text[me.piece])]
              ELSE [me EXCEPT !.pc = "user_hook", !.paths = Tail(me.paths),
                              !.text = <<>>, !.piece = 1, !.woff = 0]]
    /\ UNCHANGED seq_vars

\* resolve_gitdir, before its loop: the directory the search starts in.
ResolveGitdir(p) ==
    /\ procs[p].pc = "resolve_gitdir"
    /\ procs' = [procs EXCEPT ![p] =
           IF ~out_dir.set
           THEN [procs[p] EXCEPT !.pc = "done", !.res = "OutDir"]
           ELSE IF out_dir.rooted
           THEN [procs[p] EXCEPT !.pc = "loop", !.iters = 0, !.follows = 0,
                                 !.dir = SelectSeq(out_dir.path, LAMBDA c : c # ".")]
           ELSE IF canonicalize(fs, out_dir.path).ok
           THEN [procs[p] EXCEPT !.pc = "loop", !.iters = 0, !.follows = 0,
                                 !.dir = canonicalize(fs, out_dir.path).path]
           ELSE [procs[p] EXCEPT !.pc = "done", !.res = "Io"]]
    /\ UNCHANGED <<fs, seq_vars>>

\* Mutant: the path read from a `.git` file is not returned, the search goes
\* on from it.
resolve_iteration_follows_on(f, dir) ==
    LET gitdir_ == Join(dir, ".git") IN
    IF IsDir(f, gitdir_) THEN [returns |-> TRUE, res |-> Ok(gitdir_), dir |-> dir, read |-> FALSE]
    ELSE IF IsFile(f, gitdir_) THEN
        IF ~CanOpen(f, gitdir_)
        THEN [returns |-> TRUE, res |-> Err("Io"), dir |-> dir, read |-> TRUE]
        ELSE IF \E i \in 1..Len(Node(f, gitdir_).data) : Node(f, gitdir_).data[i] = INVALID_UTF8
        THEN [returns |-> TRUE, res |-> Err("Io"), dir |-> dir, read |-> TRUE]
        ELSE LET target == PathBufFrom(TrimRightNewlines(Node(f, gitdir_).data)) IN
             IF ~IsDir(f, target)
             THEN [returns |-> TRUE, res |-> Err("GitDirNotFound"), dir |-> dir, read |-> TRUE]
             ELSE [returns |-> FALSE, res |-> NotRun, dir |-> target, read |-> TRUE]
    ELSE IF dir = <<>>
    THEN [returns |-> TRUE, res |-> Err("GitDirNotFound"), dir |-> dir, read |-> FALSE]
    ELSE [returns |-> FALSE, res |-> NotRun, dir |-> Pop(dir), read |-> FALSE]

\* resolve_gitdir, one iteration of its loop: whether it returns and what,
\* the value of `dir` after it, and whether it read a `.git` file.
resolve_iteration(f, dir) ==
    LET gitdir_ == Join(dir, ".git") IN
    IF IsDir(f, gitdir_) THEN [returns |-> TRUE, res |-> Ok(gitdir_), dir |-> dir, read |-> FALSE]
    ELSE IF IsFile(f, gitdir_) THEN
        IF ~CanOpen(f, gitdir_)
        THEN [returns |-> TRUE, res |-> Err("Io"), dir |-> dir, read |-> TRUE]
        ELSE IF \E i \in 1..Len(Node(f, gitdir_).data) : Node(f, gitdir_).data[i] = INVALID_UTF8
        THEN [returns |-> TRUE, res |-> Err("Io"), dir |-> dir, read |-> TRUE]
        ELSE LET target == PathBufFrom(TrimRightNewlines(Node(f, gitdir_).data)) IN
             IF ~IsDir(f, target)
             THEN [returns |-> TRUE, res |-> Err("GitDirNotFound"), dir |-> dir, read |-> TRUE]
             ELSE [returns |-> TRUE, res |-> Ok(target), dir |-> dir, read |-> TRUE]
    ELSE IF dir = <<>>
    THEN [returns |-> TRUE, res |-> Err("GitDirNotFound"), dir |-> dir, read |-> FALSE]
    ELSE [returns |-> FALSE, res |-> NotRun, dir |-> Pop(dir), read |-> FALSE]

\* resolve_gitdir, one iteration of its loop; install_hook goes on with the
\* directory it returns.
ResolveLoop(p) ==
    /\ procs[p].pc = "loop"
    /\ LET me == procs[p]
           it == resolve_iteration(fs, me.dir)
           counted == [me EXCEPT !.iters = me.iters + 1,
                                 !.follows = me.follows + (IF it.read THEN 1 ELSE 0),
                                 !.dir = it.dir]
       IN  procs' = [procs EXCEPT ![p] =
               IF ~it.returns THEN counted
               ELSE IF it.res.ok
               THEN [counted EXCEPT !.pc = "open", !.git_dir = it.res.path,
                                    !.log = Logged(p, "resolved")]
               ELSE [counted EXCEPT !.pc = "done", !.res = it.res.err]]
    /\ UNCHANGED <<fs, seq_vars>>

\* What hook_already_exists answered: the hook is left alone, or is written.
Answered(p, exists) ==
    IF exists
    THEN [procs[p] EXCEPT !.pc = "install", !.hook = procs[p].hook + 1,
                          !.log = Logged(p, "exists")]
    ELSE [procs[p] EXCEPT !.pc = "create", !.log = Logged(p, "safe")]

\* hook_already_exists: File::open
OpenHook(p) ==
    /\ procs[p].pc = "open"
    /\ procs' = [procs EXCEPT ![p] =
           IF ~CanOpen(fs, HookPath(p)) THEN Answered(p, FALSE)
           ELSE [procs[p] EXCEPT !.pc = "read", !.roff = 0, !.got = 0, !.cur = <<>>]]
    /\ UNCHANGED <<fs, seq_vars>>

\* Mutant: the answer of hook_already_exists is not looked at, the hook is
\* written in any case.
ReadHook_answer_dropped(p) ==
    /\ procs[p].pc = "read"
    /\ procs' = [procs EXCEPT ![p] =
           [procs[p] EXCEPT !.pc = "create", !.log = Logged(p, "exists")]]
    /\ UNCHANGED <<fs, seq_vars>>

\* hook_already_exists: lines().nth(2), one read(2) of the BufReader.
ReadHook(p) ==
    /\ procs[p].pc = "read"
    /\ LET v == lines_nth_2(procs[p], Node(fs, HookPath(p))) IN
       procs' = [procs EXCEPT ![p] =
           IF v.answered THEN Answered(p, v.exists) ELSE v.me]
    /\ UNCHANGED <<fs, seq_vars>>

\* install_hook: create_executable_file(&hook_path)?
CreateHook(p) ==
    /\ procs[p].pc = "create"
    /\ LET c == create_executable_file(fs, HookPath(p)) IN
       /\ fs' = c.fs
       /\ procs' = [procs EXCEPT ![p] =
              IF ~c.ok THEN [procs[p] EXCEPT !.pc = "done", !.res = "Io"]
              ELSE [procs[p] EXCEPT
                      !.pc = "write", !.piece = 1, !.woff = 0,
                      !.log = IF ~Exists(fs, HookPath(p)) THEN Logged(p, "created")
                              ELSE IF Node(fs, HookPath(p)).data = <<>> THEN Logged(p, "reopened")
                              ELSE Logged(p, "truncated")]]
    /\ UNCHANGED seq_vars

\* install_hook: write_script(&mut f)?, one write_all; after the last one
\* the file is closed and install_hook returns Ok(()).
WriteHook(p) ==
    /\ procs[p].pc = "write"
    /\ LET me == procs[p]
           pieces == write_script_pieces(features, out_dir, me.inlined)
       IN  IF me.piece > Len(pieces)
           THEN /\ procs' = [procs EXCEPT ![p] =
                       [me EXCEPT !.pc = "install", !.hook = me.hook + 1,
                                  !.log = Logged(p, "written")]]
                /\ UNCHANGED fs
           ELSE /\ fs' = WriteAt(fs, HookPath(p), me.woff, pieces[me.piece])
                /\ procs' = [procs EXCEPT ![p] =
                       [me EXCEPT !.piece = me.piece + 1,
                                  !.woff = me.woff + Size(pieces[me.piece])]]
    /\ UNCHANGED seq_vars

NextRace ==
    \/ \E p \in DOMAIN procs : NextHook(p)
    \/ \E p \in DOMAIN procs : UserHooksBegin(p)
    \/ \E p \in DOMAIN procs : UserHookNext(p)
    \/ \E p \in DOMAIN procs : UserHookCheck(p)
    \/ \E p \in DOMAIN procs : UserHookOpen(p)
    \/ \E p \in DOMAIN procs : UserHookRead(p)
    \/ \E p \in DOMAIN procs : UserHookCreate(p)
    \/ \E p \in DOMAIN procs : UserHookWrite(p)
    \/ \E p \in DOMAIN procs : ResolveGitdir(p)
    \/ \E p \in DOMAIN procs : ResolveLoop(p)
    \/ \E p \in DOMAIN procs : OpenHook(p)
    \/ \E p \in DOMAIN procs : ReadHook(p)
    \/ \E p \in DOMAIN procs : CreateHook(p)
    \/ \E p \in DOMAIN procs : WriteHook(p)

\* A build script at the start of main().
StartedProc(inlined) ==
    [pc |-> "install", hook |-> 1, dir |-> <<>>, iters |-> 0, follows |-> 0,
     git_dir |-> <<>>, paths |-> <<>>, lines |-> <<>>, text |-> <<>>,
     roff |-> 0, got |-> 0, cur |-> <<>>,
     inlined |-> inlined, piece |-> 1, woff |-> 0, res |-> "none", log |-> <<>>]

Builds == {"a", "b"}

\* The build scripts are one program built by one compiler.
StartRace(f, od, feat, order, running) ==
    /\ fs = f
    /\ out_dir = od
    /\ features = feat
    /\ dir_order = order
    /\ pc = "race"
    /\ pass = 1
    /\ hook_paths = <<>>
    /\ err = "Ok"
    /\ result = "none"
    /\ warned = FALSE
    /\ gitdir = NotRun
    /\ snaps = <<f>>
    /\ visited = <<>>
    /\ written = <<>>
    /\ checks = <<>>
    /\ \E inlined \in BOOLEAN : procs = [p \in running |-> StartedProc(inlined)]

\* A hook of cargo-husky whose second line ends after the first buffer of a
\* reader, and a user hook with such a line.
LongHook(version) ==
    RegularFile(WriteLines(<<Shebang, <<LONG>>, MarkerLine(version), <<"cargo test">>>>),
                MODE_0755)
LongUserScript ==
    UserScript(<<Shebang, <<LONG>>, <<"cargo test">>>>, MODE_0755)

\* A hook of another version that ends in its third line, without a line
\* end: its reader goes on reading where the file ended.
UnfinishedThird ==
    RegularFile(<<"a", NL, "b", NL>> \o MarkerLineStart(OtherVersion), MODE_0755)

\* A user hook whose last line has no line end.
UnfinishedUserScript == RegularFile(<<"a", NL, "b">>, MODE_0755)

RaceSlotNodes ==
    {NoNode, Dir, ForeignOneLine, ForeignNoNewline, ForeignInvalidThird,
     OwnHook(CARGO_PKG_VERSION, MODE_0755), OwnHook(OtherVersion, MODE_0755),
     OwnHook(OtherVersion, MODE_0555), LongHook(OtherVersion)}

\* One build script, every content of the hook files.
InitRaceAlone ==
    \E hooks \in {Dir, NoNode}, enabled \in SUBSET HookFeatures,
       od \in {Rooted(<<"r", "s">>), Rooted(<<>>)} :
    \E n1 \in RaceSlotNodes, n2 \in RaceSlotNodes, n3 \in {NoNode, OwnHook(OtherVersion, MODE_0755)} :
        /\ hooks = NoNode => (n1 = NoNode /\ n2 = NoNode /\ n3 = NoNode)
        /\ od = Rooted(<<>>) => (n1 = NoNode /\ n2 = NoNode /\ n3 = NoNode)
        /\ StartRace(MkFs(BaseDirs \cup {<<RepoGit, Dir>>, <<RepoHooks, hooks>>,
                                          <<Join(RepoHooks, "pre-push"), n1>>,
                                          <<Join(RepoHooks, "pre-commit"), n2>>,
                                          <<Join(RepoHooks, "post-merge"), n3>>}),
                     od, enabled \cup DefaultSteps, <<"pre-commit", "commit-msg">>, {"a"})

\* Two build scripts of the same version and configuration; the hook files
\* are absent, or the first is the hook of another version.
InitRaceTogether ==
    \E enabled \in SUBSET HookFeatures,
       n1 \in {NoNode, OwnHook(OtherVersion, MODE_0755), LongHook(OtherVersion),
                UnfinishedThird} :
        /\ Cardinality(enabled) <= 2
        /\ n1 # NoNode => enabled = {"prepush-hook"}
        /\ StartRace(MkFs(BaseDirs \cup {<<RepoGit, Dir>>, <<RepoHooks, Dir>>,
                                          <<Join(RepoHooks, "pre-push"), n1>>}),
                     Rooted(<<"r", "s">>), enabled \cup DefaultSteps, <<"pre-commit", "commit-msg">>, Builds)

\* One build script, every placement of `.git` entries above the output
\* directory.
InitRaceResolve ==
    \E g0 \in {NoNode, Dir}, g1 \in GitEntryNodes, g2 \in GitEntryNodes, od \in OutDirs :
        /\ g1 \in GitEntrySamples \/ g2 \in GitEntrySamples
        /\ StartRace(MkFs(BaseDirs
                          \cup {<<Join(CWD, "o"), Dir>>, <<Worktree, Dir>>,
                                <<Join(Worktree, "hooks"), Dir>>,
                                <<<<".git">>, g0>>, <<<<"r", ".git">>, g1>>,
                                <<<<"r", "s", ".git">>, g2>>,
                                <<Join(CWD, "hooks"), Dir>>,
                                HooksUnder(<<".git">>, g0), HooksUnder(<<"r", ".git">>, g1),
                                HooksUnder(<<"r", "s", ".git">>, g2)}),
                     od, {"precommit-hook"} \cup DefaultSteps,
                     <<"pre-commit", "commit-msg">>, {"a"})

\* User-hooks mode, with and without features of the fixed hooks: one build
\* script or two, user hooks that can and cannot be installed.
InitRaceUser ==
    \E s1 \in {UserScript(<<Shebang, <<"cargo test">>>>, MODE_0755),
                UserScript(<<>>, MODE_0755), LongUserScript, UnfinishedUserScript},
       s2 \in {NoNode, UserScript(<<<<"cargo fmt">>>>, MODE_0755),
                UserScript(<<<<"cargo fmt">>>>, MODE_0644)},
       d1 \in {NoNode, ForeignOneLine, OwnHook(OtherVersion, MODE_0755)},
       husky \in {Dir, NoNode}, more \in {{}, {"prepush-hook"}},
       order \in DirOrders, running \in {{"a"}, Builds} :
        StartRace(MkFs(BaseDirs \cup {<<RepoGit, Dir>>, <<RepoHooks, Dir>>,
                                       <<<<"r", ".cargo-husky">>, husky>>,
                                       <<RepoUserHooks, husky>>,
                                       <<Join(RepoUserHooks, "pre-commit"),
                                         IF husky = Dir THEN s1 ELSE NoNode>>,
                                       <<Join(RepoUserHooks, "commit-msg"),
                                         IF husky = Dir THEN s2 ELSE NoNode>>,
                                       <<Join(RepoHooks, "pre-commit"), d1>>}),
                  Rooted(<<"r", "s">>), {"user-hooks"} \cup more \cup DefaultSteps,
                  order, running)

\* User-hooks mode, two build scripts, `.git` is a file that names the
\* directory .cargo-husky: the hooks directory is the user hooks directory
\* and a user hook is installed onto itself.
InitRaceSameDir ==
    \E s1 \in {UserScript(<<Shebang, <<"cargo test">>>>, MODE_0755), UnfinishedUserScript,
                LongUserScript},
       running \in {{"a"}, Builds} :
        StartRace(MkFs(BaseDirs \cup {<<<<"r", "s", ".git">>,
                                         GitFile(<<"/", "r", "/", ".cargo-husky", NL>>)>>,
                                       <<<<"r", ".cargo-husky">>, Dir>>,
                                       <<RepoUserHooks, Dir>>,
                                       <<Join(RepoUserHooks, "pre-commit"), s1>>}),
                  Rooted(<<"r", "s">>), {"user-hooks"} \cup DefaultSteps,
                  <<"pre-commit", "commit-msg">>, running)

InitRace ==
    InitRaceAlone \/ InitRaceTogether \/ InitRaceResolve \/ InitRaceUser \/ InitRaceSameDir

SpecRace == InitRace /\ [][NextRace]_vars

\* ======================================================================
\* Properties
\* ======================================================================
Fs0 == snaps[1]
FixedMode == "user-hooks" \notin features
UserMode == "user-hooks" \in features
Range(q) == {q[i] : i \in 1..Len(q)}

\* The control directory of the repository, and the file of a hook in it.
ControlDir == resolve_gitdir(Fs0, out_dir)
SlotPath(name) == Join(Join(ControlDir.path, "hooks"), name)
SourcePath(name) == Join(user_hooks_dir_of(ControlDir.path), name)

\* The lines of a text: its pieces between "\n", the piece after the last "\n"
\* being a line when it is not empty.
TextLines(data) ==
    LET pieces == SplitOn(data, NL, <<>>) IN
    IF pieces[Len(pieces)] = <<>> THEN SubSeq(pieces, 1, Len(pieces) - 1) ELSE pieces

HasThirdLine(data) == Len(TextLines(data)) >= 3
ThirdLineHasMarker(data) == HasThirdLine(data) /\ Contains(TextLines(data)[3], <<MARK>>)

Unchanged(p) == Exists(fs, p) /\ Node(fs, p) = Node(Fs0, p)
OwnerMayWrite(node) == BitAnd(node.mode, OWNER_WRITE) # 0
OwnerMayRead(node) == BitAnd(node.mode, OWNER_READ) # 0

\* C1 (as claimed): in fixed-hook mode, an enabled hook slot whose file existed
\* before the first build (a file its owner may read) with fewer than three
\* lines, or with a third line that does not contain "This hook was set by
\* cargo-husky", has the same content after any sequence of builds.
C1_ForeignFileKept ==
    \A hook \in Range(HookOrder) :
        (/\ FixedMode
         /\ FeatureOf(hook) \in features
         /\ ControlDir.ok
         /\ IsFile(Fs0, SlotPath(hook))
         /\ OwnerMayRead(Node(Fs0, SlotPath(hook)))
         /\ ~ThirdLineHasMarker(Node(Fs0, SlotPath(hook)).data))
        => Unchanged(SlotPath(hook))

\* C2 (as claimed): in user-hooks mode, a file in the hooks directory whose
\* third line lacks the marker is the same after the build, although an
\* eligible user hook of its name exists.
C2_UserModeForeignFileKept ==
    \A name \in UserHookNames :
        (/\ UserMode
         /\ ControlDir.ok
         /\ is_executable_file(Fs0, SourcePath(name))
         /\ IsFile(Fs0, SlotPath(name))
         /\ HasThirdLine(Node(Fs0, SlotPath(name)).data)
         /\ ~ThirdLineHasMarker(Node(Fs0, SlotPath(name)).data))
        => Unchanged(SlotPath(name))

\* The version strings hook files of cargo-husky carry in this model.
Versions == {CARGO_PKG_VERSION, OtherVersion, LongerVersion}
ThirdLineIsMarkerOf(data, version) ==
    HasThirdLine(data) /\ TextLines(data)[3] = MarkerLine(version)

\* C3 (as claimed): a hook slot file whose third line carries the marker with
\* a version string other than the current one is left untouched by a build.
C3_OlderOutputKept ==
    \A hook \in Range(HookOrder), v \in Versions \ {CARGO_PKG_VERSION} :
        (/\ FixedMode
         /\ FeatureOf(hook) \in features
         /\ ControlDir.ok
         /\ IsFile(Fs0, SlotPath(hook))
         /\ ThirdLineIsMarkerOf(Node(Fs0, SlotPath(hook)).data, v))
        => Unchanged(SlotPath(hook))

\* The text "This hook was set by cargo-husky v<current version>" occurs in
\* the third line.
ThirdLineNamesCurrentVersion(data) ==
    /\ HasThirdLine(data)
    /\ Contains(TextLines(data)[3], <<MARK, " v">> \o CARGO_PKG_VERSION)

\* C3 (amended): in fixed-hook mode, a readable hook slot file whose third
\* line carries the marker is left untouched only when that line contains
\* the marker text of the current version (the same version, or a version
\* string that begins with the current one); with any other version string
\* the first build that reaches the slot replaces the file by the script it
\* generates, or fails with an I/O error when the file cannot be written.
C3_OlderOutputRegenerated ==
    \A hook \in Range(HookOrder) :
        (/\ FixedMode
         /\ FeatureOf(hook) \in features
         /\ ControlDir.ok
         /\ IsFile(Fs0, SlotPath(hook))
         /\ OwnerMayRead(Node(Fs0, SlotPath(hook)))
         /\ ThirdLineHasMarker(Node(Fs0, SlotPath(hook)).data))
        => IF ThirdLineNamesCurrentVersion(Node(Fs0, SlotPath(hook)).data)
           THEN Unchanged(SlotPath(hook))
           ELSE IF pass > 1 THEN TRUE
           ELSE IF hook \notin Range(visited) THEN Unchanged(SlotPath(hook))
           ELSE IF OwnerMayWrite(Node(Fs0, SlotPath(hook)))
                THEN /\ IsFile(fs, SlotPath(hook))
                     /\ Node(fs, SlotPath(hook)).data # Node(Fs0, SlotPath(hook)).data
                     /\ ThirdLineIsMarkerOf(Node(fs, SlotPath(hook)).data, CARGO_PKG_VERSION)
                     /\ Node(fs, SlotPath(hook)).mode = Node(Fs0, SlotPath(hook)).mode
                ELSE Unchanged(SlotPath(hook)) /\ err = "Io"

\* C3 witness: a build has replaced a hook file of another version.
C3_Witness ==
    /\ FixedMode
    /\ pc = "done"
    /\ result = "Ok"
    /\ "pre-commit" \in Range(visited)
    /\ ControlDir.ok
    /\ IsFile(Fs0, SlotPath("pre-commit"))
    /\ ThirdLineIsMarkerOf(Node(Fs0, SlotPath("pre-commit")).data, OtherVersion)
    /\ ThirdLineIsMarkerOf(Node(fs, SlotPath("pre-commit")).data, CARGO_PKG_VERSION)

\* C4: a second build in the same environment leaves every file as the
\* first build left it (and so does every later one).
C4_Idempotent ==
    \A i \in 2..(Len(snaps) - 1) : snaps[i + 1] = snaps[i]

\* C4 witness: the second build has written a hook file again, after the first
\* build changed the hooks directory.
C4_Witness ==
    /\ pc = "done"
    /\ pass = 2
    /\ written # <<>>
    /\ snaps[2] # snaps[1]

\* The directory the search starts in, once OUT_DIR is made absolute.
StartDirKnown == out_dir.set /\ (out_dir.rooted \/ canonicalize(Fs0, out_dir.path).ok)
StartDir ==
    IF out_dir.rooted THEN SelectSeq(out_dir.path, LAMBDA c : c # ".")
    ELSE canonicalize(Fs0, out_dir.path).path
Ancestors(d) == {SubSeq(d, 1, k) : k \in 0..Len(d)}
HasGitEntry(f, a) == IsDir(f, Join(a, ".git")) \/ IsFile(f, Join(a, ".git"))
NoGitAbove == StartDirKnown /\ \A a \in Ancestors(StartDir) : ~Exists(Fs0, Join(a, ".git"))
ResolveRuns == UserMode \/ \E hook \in Range(HookOrder) : FeatureOf(hook) \in features

\* C5: with no `.git` in the start directory or above it, resolution fails
\* with GitDirNotFound, no file is created or modified, and main() returns
\* success after a warning, in both modes.
C5_MissingRepositoryNotFatal ==
    NoGitAbove =>
        /\ fs = Fs0
        /\ gitdir \in {NotRun, Err("GitDirNotFound")}
        /\ pc = "done" =>
              /\ result = "Ok"
              /\ ResolveRuns => (warned /\ gitdir = Err("GitDirNotFound"))

\* C5 witness: a build in user-hooks mode has ended four levels below a root
\* without any `.git`.
C5_Witness ==
    /\ NoGitAbove
    /\ UserMode
    /\ out_dir = Rooted(<<"r", "s", "t", "u">>)
    /\ pc = "done"
    /\ warned
    /\ result = "Ok"

NodeAt(f, p) == IF Exists(f, p) THEN Node(f, p) ELSE NoNode
Pos(hook) == CHOOSE i \in 1..Len(HookOrder) : HookOrder[i] = hook
Fatal(e) == e \notin {"Ok", "GitDirNotFound", "none"}
\* The names of the hooks the failed build did not get to.
NotReached ==
    IF UserMode THEN {FileName(hook_paths[i]) : i \in 1..Len(hook_paths)}
    ELSE {hook \in Range(HookOrder) :
            \A i \in 1..Len(visited) : Pos(hook) > Pos(visited[i])}

\* C6: the first error other than GitDirNotFound ends the build: the next
\* step is main() returning that error, no file changes any more, the hooks
\* later in the order are as they were when the build began, and the files
\* written before the failure hold what was written.
C6_FatalErrorsAbort ==
    /\ [][(Fatal(err) /\ pc # "done") =>
              (pc = "return" /\ pc' = "done" /\ fs' = fs /\ result' = err)]_vars
    /\ []((pc = "done" /\ Fatal(result)) =>
            /\ \A i \in 1..Len(written) :
                  /\ IsFile(fs, written[i].path)
                  /\ Node(fs, written[i].path).data = written[i].data
            /\ \A p \in (DOMAIN fs) \cup (DOMAIN snaps[pass]) :
                  (p # <<>> /\ FileName(p) \in NotReached)
                  => NodeAt(fs, p) = NodeAt(snaps[pass], p))

\* C6 witness: a fixed-hook build wrote pre-push, failed at pre-commit, and
\* never created the enabled post-merge hook.
C6_Witness ==
    /\ FixedMode
    /\ pc = "done"
    /\ result = "Io"
    /\ visited = <<"pre-push", "pre-commit">>
    /\ written # <<>>
    /\ "postmerge-hook" \in features
    /\ gitdir.ok
    /\ ~Exists(fs, Join(Join(gitdir.path, "hooks"), "post-merge"))

\* The nearest directory, from the start directory upwards, with a `.git`
\* entry that is a directory or a regular file.
GitAbove == \E a \in Ancestors(StartDir) : HasGitEntry(fs, a)
Nearest ==
    CHOOSE a \in Ancestors(StartDir) :
        /\ HasGitEntry(fs, a)
        /\ \A b \in Ancestors(StartDir) : HasGitEntry(fs, b) => Len(b) <= Len(a)

\* C7 (as claimed): whenever the start directory or an ancestor holds `.git`
\* as a directory, resolution returns the `.git` of such a directory.
C7_GitDirectoryAbove ==
    (/\ gitdir # NotRun
     /\ out_dir.rooted
     /\ \E a \in Ancestors(StartDir) : IsDir(fs, Join(a, ".git")))
    => /\ gitdir.ok
       /\ \E a \in Ancestors(StartDir) :
             IsDir(fs, Join(a, ".git")) /\ gitdir.path = Join(a, ".git")

\* C7 (amended): when the nearest `.git` entry (directory or regular file),
\* from the start directory upwards, is a directory, resolution returns
\* exactly that directory, however deep the start directory lies below it.
C7_NearestGitDirectory ==
    (/\ gitdir # NotRun
     /\ out_dir.rooted
     /\ GitAbove
     /\ IsDir(fs, Join(Nearest, ".git")))
    => gitdir = Ok(Join(Nearest, ".git"))

\* C7 witness: resolution from three levels below the repository.
C7_Witness ==
    /\ out_dir = Rooted(<<"r", "s", "t", "u">>)
    /\ gitdir = Ok(<<"r", ".git">>)
    /\ ~Exists(fs, <<"r", "s", ".git">>)

\* The text without the "\n" and "\r" at its end.
Stripped(text) ==
    LET k == CHOOSE k \in 0..Len(text) :
                /\ k = 0 \/ text[k] \notin {NL, CR}
                /\ \A j \in (k + 1)..Len(text) : text[j] \in {NL, CR}
    IN  SubSeq(text, 1, k)

Readable(node) ==
    /\ OwnerMayRead(node)
    /\ \A i \in 1..Len(node.data) : node.data[i] # INVALID_UTF8

\* C8: when the nearest `.git` entry is a regular file (that can be read), the
\* path P in it, without the newlines at its end, is returned if it is a
\* directory; otherwise resolution fails with GitDirNotFound: P is not
\* followed further and the search does not go on upwards.
C8_GitFileFollowedOnce ==
    (/\ gitdir # NotRun
     /\ StartDirKnown
     /\ GitAbove
     /\ IsFile(fs, Join(Nearest, ".git"))
     /\ Readable(Node(fs, Join(Nearest, ".git"))))
    => LET P == PathBufFrom(Stripped(Node(fs, Join(Nearest, ".git")).data)) IN
       gitdir = IF IsDir(fs, P) THEN Ok(P) ELSE Err("GitDirNotFound")

\* C8 witness: the `.git` file of the start directory names the worktree
\* directory, followed by "\n\r\n".
C8_Witness ==
    /\ out_dir = Rooted(<<"r", "s">>)
    /\ IsFile(fs, <<"r", "s", ".git">>)
    /\ Node(fs, <<"r", "s", ".git">>).data = <<"/", "w", NL, CR, NL>>
    /\ IsDir(fs, <<"r", ".git">>)
    /\ gitdir = Ok(Worktree)

\* The lines BufRead::lines() reads from a file all of whose lines are text.
ReadLines(data) == [i \in 1..Len(BufLines(data)) |-> BufLines(data)[i].s]

\* C9: the file written for a user hook is the source with "#", "#" and the
\* provenance comment put before its lines, or, when the first line starts
\* with "#!", with "#" and the provenance comment put after the first line;
\* it lies in <control-dir>/hooks under the name of the source.
C9_AdoptionHeader ==
    UserMode =>
        \A i \in 1..Len(written) :
            LET dst == written[i].path
                src == Join(user_hooks_dir_of(gitdir.path), FileName(dst))
                L == ReadLines(Node(fs, src).data)
            IN  /\ gitdir.ok
                /\ dst = Join(Join(gitdir.path, "hooks"), FileName(dst))
                /\ is_executable_file(fs, src)
                /\ L # <<>>
                /\ IsFile(fs, dst)
                /\ ReadLines(Node(fs, dst).data) =
                      IF StartsWith(L[1], <<"#!">>)
                      THEN <<L[1], <<"#">>, MarkerLine(CARGO_PKG_VERSION)>> \o Tail(L)
                      ELSE <<<<"#">>, <<"#">>, MarkerLine(CARGO_PKG_VERSION)>> \o L

\* C9 witness: one build has adopted a hook with a shebang line and a hook
\* without one.
C9_Witness ==
    /\ UserMode
    /\ pc = "done"
    /\ Len(written) = 2
    /\ \E i \in 1..2 : StartsWith(ReadLines(written[i].data)[1], <<"#!">>)
                       /\ Len(ReadLines(written[i].data)) > 3
    /\ \E i \in 1..2 : ~StartsWith(ReadLines(written[i].data)[1], <<"#!">>)

Catalog == <<"cargo test", "cargo check", "cargo clippy", "cargo fmt">>
StepFeature(c) ==
    CASE c = "cargo test" -> "run-cargo-test"
      [] c = "cargo check" -> "run-cargo-check"
      [] c = "cargo clippy" -> "run-cargo-clippy"
      [] c = "cargo fmt" -> "run-cargo-fmt"
EnabledSteps == SelectSeq(Catalog, LAMBDA c : StepFeature(c) \in features)

\* C10: in a generated script the lines after `set -e` that are not empty are
\* one pair (echo of the command, the command) for every enabled step, in the
\* order test, check, clippy, fmt, and nothing for a disabled step.
C10_StepOrder ==
    FixedMode =>
        \A i \in 1..Len(written) :
            LET ls == ReadLines(Node(fs, written[i].path).data)
                at == {k \in 1..Len(ls) : ls[k] = <<"set -e">>}
                k == CHOOSE k \in at : TRUE
                body == SelectSeq(SubSeq(ls, k + 1, Len(ls)), LAMBDA l : l # <<>>)
            IN  /\ Cardinality(at) = 1
                /\ Len(body) = 2 * Len(EnabledSteps)
                /\ \A j \in 1..Len(EnabledSteps) :
                      /\ body[2 * j][1] = EnabledSteps[j]
                      /\ body[2 * j - 1] = <<"echo '+">> \o body[2 * j] \o <<"'">>

\* C10 witness: a script generated with only the fmt and test steps enabled.
C10_Witness ==
    /\ FixedMode
    /\ written # <<>>
    /\ features \cap StepFeatures = {"run-cargo-fmt", "run-cargo-test"}
    /\ IsFile(fs, written[1].path)

\* ----------------------------------------------------------------------
\* A user hook the build may install: a regular file that its owner, its group
\* and everybody else may read and execute.
MayReadAndExecute(mode, who) == BitAnd(mode, 4 * who) # 0 /\ BitAnd(mode, who) # 0
Eligible(f, p) ==
    IsFile(f, p) /\ \A who \in {64, 8, 1} : MayReadAndExecute(Node(f, p).mode, who)
UserHooksDir == user_hooks_dir_of(ControlDir.path)
EligibleSources ==
    LET dir == Real(Fs0, UserHooksDir) IN
    {p \in DOMAIN Fs0 : p # <<>> /\ Pop(p) = dir /\ Eligible(Fs0, p)}

\* C11: in user-hooks mode with a control directory, when the user hooks
\* directory is not a directory or holds no eligible file, the build fails
\* with InvalidUserHooksDir and no file is created or modified.
C11_InvalidUserHooksDir ==
    (UserMode /\ ControlDir.ok /\ (~IsDir(Fs0, UserHooksDir) \/ EligibleSources = {})) =>
        /\ fs = Fs0
        /\ written = <<>>
        /\ pc # "user_hook"
        /\ pc = "return" => err = "InvalidUserHooksDir"
        /\ pc = "done" => result = "InvalidUserHooksDir" /\ ~warned

\* C11 witness: a build has ended with InvalidUserHooksDir where the user
\* hooks directory holds a file, which is not executable, and the hooks
\* directory holds a hook of the same name.
C11_Witness ==
    /\ UserMode /\ ControlDir.ok /\ pc = "done" /\ result = "InvalidUserHooksDir"
    /\ IsDir(Fs0, UserHooksDir)
    /\ IsFile(Fs0, SourcePath("pre-commit")) /\ ~Eligible(Fs0, SourcePath("pre-commit"))
    /\ IsFile(Fs0, SlotPath("pre-commit"))

\* ----------------------------------------------------------------------
\* install_user_hooks as one computation: the loop over the executable files,
\* left at the first error.
RECURSIVE user_hooks_loop(_, _, _)
user_hooks_loop(f, paths, dst) ==
    IF paths = <<>> THEN Done(f, "Ok", <<>>, <<>>)
    ELSE LET r == install_user_hook(f, Head(paths), dst) IN
         IF r.res # "Ok" THEN r ELSE user_hooks_loop(r.fs, Tail(paths), dst)

install_user_hooks(f, od, order) ==
    LET b == user_hooks_begin(f, od, order) IN
    IF b.res # "Ok" THEN Done(f, b.res, <<>>, <<>>)
    ELSE user_hooks_loop(f, b.paths, Join(resolve_gitdir(f, od).path, "hooks"))

GeneratedScript == write_script(features, out_dir)

\* C12: with user-hooks enabled, whatever the fixed-hook features are, no
\* statement of the fixed hooks runs, no generated script is written to a hook
\* file, and the build ends with the filesystem and the result of
\* install_user_hooks alone.
C12_ModeExclusive ==
    UserMode =>
        /\ pc \notin Range(HookOrder)
        /\ \A w \in Range(written) : w.data # GeneratedScript
        /\ \A hook \in Range(HookOrder) :
               \A p \in DOMAIN fs : (p # <<>> /\ FileName(p) = hook /\ IsFile(fs, p)) =>
                   Node(fs, p).data # GeneratedScript
        /\ (pc = "done" /\ pass = 1) =>
               LET r == install_user_hooks(Fs0, out_dir, dir_order) IN
               /\ fs = r.fs
               /\ err = r.res
               /\ result = IF r.res = "GitDirNotFound" THEN "Ok" ELSE r.res

\* C12 witness: a build with user-hooks, prepush-hook and precommit-hook has
\* ended well; it wrote the user hook to the pre-commit file and there is no
\* pre-push file.
C12_Witness ==
    /\ UserMode /\ {"prepush-hook", "precommit-hook"} \subseteq features
    /\ ControlDir.ok /\ pc = "done" /\ result = "Ok"
    /\ \E w \in Range(written) : w.path = SlotPath("pre-commit")
    /\ ~Exists(fs, SlotPath("pre-push"))

\* ----------------------------------------------------------------------
\* C13 (as claimed): every hook file a build wrote, at a path that was absent
\* or over a file (one its owner could read) that the ownership check allowed
\* to be replaced, has mode 0755 when the build has ended well.
C13_WrittenFilesExecutable ==
    (pc = "done" /\ result = "Ok") =>
        \A w \in Range(written) :
            (Exists(Fs0, w.path) => OwnerMayRead(Node(Fs0, w.path))) =>
                IsFile(fs, w.path) /\ Node(fs, w.path).mode = MODE_0755

\* ----------------------------------------------------------------------
\* The paths whose node is not what it was before the first build.
Changed ==
    {p \in DOMAIN fs \cup DOMAIN Fs0 :
        \/ p \notin DOMAIN fs
        \/ p \notin DOMAIN Fs0
        \/ fs[p] # Fs0[p]}
\* The names a build may write in the hooks directory.
WritableNames ==
    IF FixedMode THEN {hook \in Range(HookOrder) : FeatureOf(hook) \in features}
    ELSE {FileName(p) : p \in EligibleSources}
\* The lines install_user_hook makes of the lines L of a source.
AdoptedLines(L) ==
    IF StartsWith(L[1], <<"#!">>)
    THEN <<L[1], <<"#">>, MarkerLine(CARGO_PKG_VERSION)>> \o Tail(L)
    ELSE <<<<"#">>, <<"#">>, MarkerLine(CARGO_PKG_VERSION)>> \o L
\* The whole text a build writes to the hook file p.
TextFor(p) ==
    IF FixedMode THEN GeneratedScript
    ELSE WriteLines(AdoptedLines(ReadLines(Node(Fs0, SourcePath(FileName(p))).data)))

\* C14: nothing is removed, and a path that differs from what it was before
\* the first build is a file directly in <control-dir>/hooks, named after an
\* enabled hook (fixed mode) or an eligible user hook (user mode), that holds
\* the text written and nothing else; user hook sources, `.git` files and
\* every other path are as they were.
C14_WriteFootprint ==
    LET control == ControlDir
        names == WritableNames
        sources == EligibleSources
    IN  /\ DOMAIN Fs0 \subseteq DOMAIN fs
        /\ \A p \in Changed :
               /\ control.ok
               /\ p # <<>>
               /\ Pop(p) = Real(Fs0, Join(control.path, "hooks"))
               /\ FileName(p) \in names
               /\ IsFile(fs, p)
               /\ Node(fs, p).data = TextFor(p)
        /\ \A p \in DOMAIN Fs0 :
               (p \in sources \/ (p # <<>> /\ FileName(p) = ".git")) =>
                   (p \in DOMAIN fs /\ fs[p] = Fs0[p])

\* C14 witness: a build with prepush-hook and without precommit-hook has
\* replaced an earlier version's pre-push file and left the earlier version's
\* pre-commit file alone.
C14_Witness ==
    /\ FixedMode /\ pc = "done" /\ result = "Ok"
    /\ "prepush-hook" \in features /\ "precommit-hook" \notin features
    /\ ControlDir.ok
    /\ Real(Fs0, SlotPath("pre-push")) \in Changed
    /\ Exists(Fs0, SlotPath("pre-push"))
    /\ Node(Fs0, SlotPath("pre-push")) = OwnHook(OtherVersion, MODE_0755)
    /\ Exists(Fs0, SlotPath("pre-commit"))
    /\ Node(Fs0, SlotPath("pre-commit")) = OwnHook(OtherVersion, MODE_0755)

\* ----------------------------------------------------------------------
\* The filesystem at the start of the running build.
AtStart == snaps[pass]
HasInvalidUtf8(text) == \E i \in 1..Len(text) : text[i] = INVALID_UTF8

\* C15 (as claimed): hook_already_exists answers false exactly when the file
\* is absent or cannot be opened, a read error occurs before the third line is
\* obtained, or the third line carries the marker of the current version;
\* it answers true for fewer than three lines, a third line without the
\* marker, and a third line with the marker of another version.
C15_TruthTableAsClaimed ==
    \A k \in Range(checks) :
        LET node == NodeAt(AtStart, k.path)
            ls == TextLines(node.data)
        IN  k.exists =
              ~(\/ node.kind = "none"
                \/ ~OwnerMayRead(node)
                \/ node.kind = "dir"
                \/ \E i \in 1..3 : i <= Len(ls) /\ HasInvalidUtf8(ls[i])
                \/ ThirdLineNamesCurrentVersion(node.data))

\* C15 (amended): hook_already_exists answers false when the file is absent
\* or cannot be opened, when reading the third line fails (a directory, or a
\* third line that is not UTF-8; an unreadable first or second line is passed
\* over), and when the third line holds the marker without the text
\* "<marker> v<current version>"; it answers true for fewer than three lines,
\* for a third line without the marker, and for a third line that holds
\* "<marker> v<current version>".
C15_TruthTable ==
    \A k \in Range(checks) :
        LET node == NodeAt(AtStart, k.path)
            ls == TextLines(node.data)
        IN  k.exists =
              IF node.kind = "none" \/ ~OwnerMayRead(node) THEN FALSE
              ELSE IF node.kind = "dir" THEN FALSE
              ELSE IF Len(ls) < 3 THEN TRUE
              ELSE IF HasInvalidUtf8(ls[3]) THEN FALSE
              ELSE IF ~Contains(ls[3], <<MARK>>) THEN TRUE
              ELSE Contains(ls[3], <<MARK, " v">> \o CARGO_PKG_VERSION)

\* C15 witness: one build has asked about a hook of the current version
\* (true), about a hook of another version (false) and about a foreign hook
\* whose first line is not UTF-8 (true).
C15_Witness ==
    /\ FixedMode /\ Len(checks) = 3
    /\ NodeAt(AtStart, checks[1].path) = OwnHook(CARGO_PKG_VERSION, MODE_0755)
    /\ checks[1].exists
    /\ NodeAt(AtStart, checks[2].path) = OwnHook(OtherVersion, MODE_0755)
    /\ ~checks[2].exists
    /\ NodeAt(AtStart, checks[3].path) = ForeignInvalidFirst
    /\ checks[3].exists

\* ----------------------------------------------------------------------
\* An eligible user hook that install_user_hook can install: its text can be
\* read and is not empty, and the file of its name in the hooks directory can
\* be created or written.
Installable(p) ==
    LET dst == SlotPath(FileName(p)) IN
    /\ Readable(Node(Fs0, p)) /\ Node(Fs0, p).data # <<>>
    /\ IsDir(Fs0, Pop(dst))
    /\ Exists(Fs0, dst) => (IsFile(Fs0, dst) /\ OwnerMayWrite(Node(Fs0, dst)))

\* C16: in user-hooks mode the entries of the user hooks directory the build
\* installs are the regular files whose mode has the read and execute bits of
\* owner, group and others; every other entry is passed over without an
\* error, and a directory with installable eligible files and other entries
\* ends well with the eligible ones installed (as files of the hooks
\* directory, where that is a directory).
C16_Eligibility ==
    (UserMode /\ ControlDir.ok /\ IsDir(Fs0, UserHooksDir)) =>
        LET eligible == EligibleSources
            names == {FileName(p) : p \in eligible}
        IN  /\ (pc = "user_hook" /\ visited = <<>>) =>
                   {Real(Fs0, p) : p \in Range(hook_paths)} = eligible
            /\ Range(visited) \subseteq names
            /\ \A w \in Range(written) : FileName(w.path) \in names
            /\ (pc = "done" /\ result = "Ok") =>
                   /\ Range(visited) = names
                   /\ IsDir(Fs0, Join(ControlDir.path, "hooks")) =>
                          \A n \in names : IsFile(fs, SlotPath(n))
                   /\ \A n \in UserHookNames \ names : NodeAt(fs, SlotPath(n)) = NodeAt(Fs0, SlotPath(n))
            /\ (pc = "done" /\ eligible # {} /\ \A p \in eligible : Installable(p)) =>
                   result = "Ok"

\* C16 witness: a build has ended well that installed the one eligible file
\* and passed over a file that lacks the read and execute bits of the others.
C16_Witness ==
    /\ UserMode /\ ControlDir.ok /\ pc = "done" /\ result = "Ok"
    /\ IsFile(Fs0, SourcePath("pre-commit"))
    /\ Node(Fs0, SourcePath("pre-commit")).mode = Mode(7, 5, 0)
    /\ visited = <<"commit-msg">>
    /\ IsFile(fs, SlotPath("commit-msg"))
    /\ ~Exists(fs, SlotPath("pre-commit"))

\* ----------------------------------------------------------------------
\* What the build script p did for the hook, in the order it did it.
EventsOf(p, hook) ==
    LET own == SelectSeq(procs[p].log, LAMBDA e : e.hook = hook)
    IN  [i \in 1..Len(own) |-> own[i].event]
IsPrefix(s, t) == Len(s) <= Len(t) /\ s = SubSeq(t, 1, Len(s))
\* One hook from start to end: resolved, then left alone or written.
SlotSkipped == <<"resolved", "exists">>
SlotWritten == {<<"resolved", "safe", c, "written">> : c \in {"created", "reopened", "truncated"}}
SlotRuns == {SlotSkipped} \cup SlotWritten

SlotMachine(p) ==
    LET me == procs[p] IN
    /\ \A i \in 1..Len(me.log) : FeatureOf(me.log[i].hook) \in features
    /\ \A i \in 1..Len(me.log), j \in 1..Len(me.log) :
           i < j => Pos(me.log[i].hook) <= Pos(me.log[j].hook)
    /\ \A hook \in Range(HookOrder) :
           /\ \E run \in SlotRuns : IsPrefix(EventsOf(p, hook), run)
           /\ (FeatureOf(hook) \in features /\ Pos(hook) < me.hook) =>
                  EventsOf(p, hook) \in SlotRuns
           /\ Pos(hook) > me.hook => EventsOf(p, hook) = <<>>
    /\ (me.pc = "done" /\ me.res = "Ok") => me.hook > Len(HookOrder)

\* The file at path is created, emptied or written in this step.
Touched(path) == path \notin DOMAIN fs \/ fs'[path] # Node(fs, path)

\* C17: a build script takes the enabled hooks in the order pre-push,
\* pre-commit, post-merge; for each it resolves the control directory, asks
\* hook_already_exists once and then either leaves the hook alone or creates
\* (or empties) and writes the file once; a hook it has passed is never asked
\* about or written again, and a step creates, empties or writes a hook file
\* only for a build script that was answered "safe to write" for that hook.
C17_SlotStateMachine ==
    /\ [](FixedMode => \A p \in DOMAIN procs : SlotMachine(p))
    /\ [][\A path \in DOMAIN fs' :
             (FixedMode /\ Touched(path)) =>
                \E p \in DOMAIN procs :
                    /\ procs[p].pc \in {"create", "write"}
                    /\ path = Real(fs, HookPath(p))
                    /\ EventsOf(p, HookOf(p))[2] = "safe"]_vars

\* C17 witness: one build script has ended well; it left a foreign pre-push
\* alone, replaced the pre-commit of another version and created post-merge.
C17_Witness ==
    /\ DOMAIN procs = {"a"} /\ procs["a"].pc = "done" /\ procs["a"].res = "Ok"
    /\ EventsOf("a", "pre-push") = SlotSkipped
    /\ EventsOf("a", "pre-commit") = <<"resolved", "safe", "truncated", "written">>
    /\ EventsOf("a", "post-merge") = <<"resolved", "safe", "created", "written">>

\* ----------------------------------------------------------------------
\* The build script p is in install_hook after resolve_gitdir returned Ok.
Resolved(p) == procs[p].pc \in {"open", "read", "create", "write"}

ResolutionBounded(p) ==
    LET me == procs[p]
        d == Len(StartDir)
    IN  /\ me.iters <= d + 1
        /\ me.follows <= 1
        /\ me.pc = "loop" => (Len(me.dir) + me.iters = d /\ me.follows = 0)
        /\ Resolved(p) =>
               /\ me.iters >= 1
               /\ IsDir(fs, me.git_dir)
               /\ resolve_gitdir(fs, out_dir) = Ok(me.git_dir)
        /\ (me.pc = "done" /\ me.res = "GitDirNotFound") =>
               resolve_gitdir(fs, out_dir) = Err("GitDirNotFound")

\* C18: from a start directory of depth d the loop of resolve_gitdir makes at
\* most d + 1 iterations and returns a directory or an error; an iteration
\* that does not return takes the last component off the path; a `.git` file
\* is read at most once, in the iteration that returns.
C18_ResolutionTerminates ==
    /\ [](\A p \in DOMAIN procs : ResolutionBounded(p))
    /\ [][\A p \in DOMAIN procs :
             (procs[p].pc = "loop" /\ procs'[p].pc = "loop" /\ procs'[p] # procs[p]) =>
                 /\ procs[p].dir # <<>>
                 /\ procs'[p].dir = Pop(procs[p].dir)
                 /\ Len(procs'[p].dir) = Len(procs[p].dir) - 1
                 /\ procs'[p].iters = procs[p].iters + 1]_vars

\* C18 witness: from a start directory of depth 4 the fifth iteration has
\* found the `.git` directory of the root.
C18_Witness ==
    /\ DOMAIN procs = {"a"} /\ procs["a"].pc = "open"
    /\ Len(StartDir) = 4 /\ out_dir.rooted
    /\ procs["a"].iters = 5
    /\ procs["a"].git_dir = <<".git">>

\* ----------------------------------------------------------------------
\* C19 (as claimed): every file a build that ended well wrote, a generated
\* script or an adopted user hook, holds the marker of the current version in
\* its third line, and hook_already_exists answers true for it.
C19_MarkerPlacement ==
    (pc = "done" /\ result = "Ok") =>
        \A w \in Range(written) :
            /\ IsFile(fs, w.path)
            /\ ThirdLineNamesCurrentVersion(Node(fs, w.path).data)
            /\ hook_already_exists(fs, w.path)

\* ----------------------------------------------------------------------
\* Two build scripts run, the control directory resolves, its hooks directory
\* exists and the file of every enabled hook is absent.
TwoBuildsFreshSlots ==
    /\ FixedMode
    /\ DOMAIN procs = Builds
    /\ ControlDir.ok
    /\ IsDir(Fs0, Join(ControlDir.path, "hooks"))
    /\ \A hook \in Range(HookOrder) : FeatureOf(hook) \in features => ~Exists(Fs0, SlotPath(hook))

\* C20: when two build scripts of the same version and configuration run at
\* the same time on hook files that are absent, then in every interleaving of
\* their reads, creations and writes, once both have ended the file of every
\* enabled hook holds exactly the generated script, and both returned Ok.
C20_ConcurrentPassesConverge ==
    (TwoBuildsFreshSlots /\ \A p \in DOMAIN procs : procs[p].pc = "done") =>
        /\ \A p \in DOMAIN procs : procs[p].res = "Ok"
        /\ \A hook \in Range(HookOrder) :
               FeatureOf(hook) \in features =>
                   /\ IsFile(fs, SlotPath(hook))
                   /\ Node(fs, SlotPath(hook)).data = GeneratedScript
        /\ \A path \in DOMAIN fs : path \notin DOMAIN Fs0 =>
               \E hook \in Range(HookOrder) :
                   FeatureOf(hook) \in features /\ path = Real(Fs0, SlotPath(hook))

\* C20 witness: both build scripts have ended; both wrote pre-push, and one of
\* them emptied the file when the other had already written to it.
C20_Witness ==
    /\ TwoBuildsFreshSlots /\ \A p \in DOMAIN procs : procs[p].pc = "done"
    /\ \E p \in Builds, q \in Builds :
           /\ p # q
           /\ EventsOf(p, "pre-push") = <<"resolved", "safe", "created", "written">>
           /\ EventsOf(q, "pre-push") = <<"resolved", "safe", "truncated", "written">>

====
